---- MODULE Spec2Model ----
(***************************************************************************)
(* Model of the Mirror Search query privacy and backend dispatch pipeline: *)
(* the WasmLLM anonymization engine (src/wasm-llm.ts), the SearchEngines   *)
(* orchestrator (src/search-engines.ts), the POST /search, GET /health and *)
(* GET /llm-status handlers (index.ts) and the HTML result parsers         *)
(* (src/search-parsers.ts).                                                *)
(*                                                                         *)
(* A JavaScript string is modelled as a sequence of tokens.  A token is a  *)
(* maximal run of word characters (a word), one whitespace character (SP)  *)
(* or one unpaired UTF-16 surrogate (SURR).  Two words are never adjacent  *)
(* in a string, so the regular expressions of the source, which are all    *)
(* anchored at word boundaries, act on whole tokens.                       *)
(***************************************************************************)
EXTENDS Integers, Sequences, FiniteSets, TLC

\* ------------------------------------------------------------------------
\* Bounds of the model
\* ------------------------------------------------------------------------
\* longest query, in tokens
MaxTokens == 3
\* most valid entries in the RelatedTopics and in the Results list of a payload
MaxTopics == 5
\* most words of a query passed to anonymizeQuery directly
MaxWords == 4
\* highest page of results the legacy client asks for
MaxPage == 3
\* callers of WasmLLMLoader.load and paraphrase at once
MaxCallers == 3
\* latest reading of Date.now(), in ticks
MaxTime == 3
\* SearchUtils.maxCacheSize (50 in the source)
maxCacheSize == 2
\* the ttl of a cache item, in ticks (10 minutes in the source)
ttl == 1
\* SearchUtils.maxHistorySize (100 in the source)
maxHistorySize == 2

\* ------------------------------------------------------------------------
\* Strings
\* ------------------------------------------------------------------------
SP == "SP"
SURR == "SURR"

\* the words a query is written with
Words == {"a", "me", "city", "Dinner"}

Tokens == Words \cup {SP, SURR}

\* number of UTF-16 code units of a token (String.prototype.length)
TokenLen ==
  [t \in {"a", "me", "city", "Dinner", "dinner", "7", SP, SURR,
          "location", "recommended", "quality_level", "local_food",
          "time_sensitive", "meal", "number", "brand",
          "family", "today", "personal", "people", "recent"} |->
     CASE t = "a" -> 1
       [] t = "me" -> 2
       [] t = "city" -> 4
       [] t = "Dinner" -> 6
       [] t = "dinner" -> 6
       [] t = "7" -> 1
       [] t = SP -> 1
       [] t = SURR -> 1
       [] t = "location" -> 8
       [] t = "recommended" -> 11
       [] t = "quality_level" -> 13
       [] t = "local_food" -> 10
       [] t = "time_sensitive" -> 14
       [] t = "meal" -> 4
       [] t = "number" -> 6
       [] t = "brand" -> 5
       [] t = "family" -> 6
       [] t = "today" -> 5
       [] t = "personal" -> 8
       [] t = "people" -> 6
       [] t = "recent" -> 6]

RECURSIVE StrLen(_)
StrLen(s) == IF s = <<>> THEN 0 ELSE TokenLen[Head(s)] + StrLen(Tail(s))

IsWord(t) == t \notin {SP, SURR}

\* no two words are adjacent: the tokens are the maximal word runs
WellFormed(s) == \A i \in 1..(Len(s) - 1) : ~(IsWord(s[i]) /\ IsWord(s[i + 1]))

RECURSIVE TrimStart(_)
TrimStart(s) == IF s # <<>> /\ Head(s) = SP THEN TrimStart(Tail(s)) ELSE s

RECURSIVE TrimEnd(_)
TrimEnd(s) ==
  IF s # <<>> /\ s[Len(s)] = SP THEN TrimEnd(SubSeq(s, 1, Len(s) - 1)) ELSE s

\* String.prototype.trim
Trim(s) == TrimEnd(TrimStart(s))

LowerToken(t) == IF t = "Dinner" THEN "dinner" ELSE t

\* String.prototype.toLowerCase
RECURSIVE ToLowerCase(_)
ToLowerCase(s) ==
  IF s = <<>> THEN <<>> ELSE <<LowerToken(Head(s))>> \o ToLowerCase(Tail(s))

\* .replace(/\s+/g, ' ')
RECURSIVE CollapseSpaces(_)
CollapseSpaces(s) ==
  IF Len(s) < 2 THEN s
  ELSE IF s[1] = SP /\ s[2] = SP THEN CollapseSpaces(Tail(s))
       ELSE <<Head(s)>> \o CollapseSpaces(Tail(s))

\* str.replace(/\b(w1|w2|...)\b/gi, replacement): every token whose lower-case
\* form is one of the words is replaced; the replacement '' removes the token
RECURSIVE ReplaceWords(_, _, _)
ReplaceWords(s, ws, rep) ==
  IF s = <<>> THEN <<>>
  ELSE (IF LowerToken(Head(s)) \in ws THEN rep ELSE <<Head(s)>>)
       \o ReplaceWords(Tail(s), ws, rep)

\* pattern.test(str) for /\b(w1|w2|...)\b/gi
TestWords(s, ws) == \E i \in 1..Len(s) : LowerToken(s[i]) \in ws

\* encodeURIComponent throws URIError on an unpaired surrogate
EncodeURIComponentThrows(s) == \E i \in 1..Len(s) : s[i] = SURR

\* the strings a caller can pass: well-formed token sequences
RECURSIVE SeqsUpTo(_)
SeqsUpTo(n) ==
  IF n = 0 THEN {<<>>}
  ELSE LET prev == SeqsUpTo(n - 1)
       IN prev \cup {Append(s, t) : s \in {p \in prev : Len(p) = n - 1}, t \in Tokens}

Queries == {s \in SeqsUpTo(MaxTokens) : WellFormed(s)}

\* the words of the queries passed to anonymizeQuery directly
AnonWords == {"city", "Dinner", "family", "today", "personal"}

\* the lists of at most n different words
RECURSIVE WordLists(_)
WordLists(n) ==
  IF n = 0 THEN {<<>>}
  ELSE LET prev == WordLists(n - 1)
           longest == {p \in prev : Len(p) = n - 1}
       IN prev \cup UNION {{Append(ws, w) :
                              w \in {x \in AnonWords :
                                       \A i \in 1..Len(ws) : ws[i] # x}} :
                           ws \in longest}

\* the words separated by single spaces
JoinWords(ws) ==
  [i \in 1..(IF ws = <<>> THEN 0 ELSE 2 * Len(ws) - 1) |->
     IF i % 2 = 1 THEN ws[(i + 1) \div 2] ELSE SP]

WordQueries == {JoinWords(ws) : ws \in WordLists(MaxWords)}

\* a query argument that is not a string (the number 42): the parameter's
\* type is erased at run time
NonString == <<"42">>

\* the query of a request body that has no query field: undefined
Missing == <<"undefined">>

\* the query of a request whose body the handler could not destructure
NoBody == <<"no body">>

IsString(q) == q \notin {NonString, Missing, NoBody}

\* ------------------------------------------------------------------------
\* WasmLLM: the anonymization engine
\* ------------------------------------------------------------------------

\* the value of an AnonymizationResult variable that holds undefined / null
Undefined ==
  [defined |-> FALSE, originalQuery |-> <<>>, anonymizedQuery |-> <<>>,
   confidence |-> 0, preservedSemantics |-> {}, method |-> "none"]

\* the rule table the constructor fills, in insertion order:
\* <<phrase, replacement>>
initialRules ==
  << <<"city", "location">>, <<"town", "location">>, <<"near", "location">>,
     <<"nearby", "area">>,
     <<"restaurant", "food_place">>, <<"cuisine", "food_type">>,
     <<"meal", "food">>, <<"dish", "food">>, <<"dinner", "meal">>,
     <<"today", "recent">>, <<"tomorrow", "soon">>, <<"now", "current">>,
     <<"urgent", "important">>,
     <<"family", "people">>, <<"home", "place">>, <<"work", "workplace">>,
     <<"school", "education_place">> >>

\* this.anonymizationRules: the Map the strategies read
VARIABLE anonymizationRules

\* advancedPatterns of onnxAnonymize, in order
advancedPatterns ==
  << [words |-> {"city", "town", "address"}, replacement |-> <<"location">>,
      semantic |-> "location"],
     [words |-> {"me", "my", "mine", "i", "personal"}, replacement |-> <<>>,
      semantic |-> "personal"],
     [words |-> {"home", "work", "school"}, replacement |-> <<"location">>,
      semantic |-> "personal"],
     [words |-> {"best", "favorite", "preferred"},
      replacement |-> <<"recommended">>, semantic |-> "preference"],
     [words |-> {"cheap", "expensive", "quality"},
      replacement |-> <<"quality_level">>, semantic |-> "preference"],
     [words |-> {"food", "restaurant", "cuisine", "dish"},
      replacement |-> <<"local_food">>, semantic |-> "food"],
     [words |-> {"today", "tomorrow", "now", "urgent"},
      replacement |-> <<"time_sensitive">>, semantic |-> "temporal"] >>

\* the loop of onnxAnonymize over advancedPatterns, from pattern i on:
\* <<text, semantics>>
RECURSIVE ApplyPatternsFrom(_, _, _)
ApplyPatternsFrom(i, text, sem) ==
  IF i > Len(advancedPatterns) THEN <<text, sem>>
  ELSE LET p == advancedPatterns[i]
       IN IF TestWords(text, p.words)
          THEN ApplyPatternsFrom(i + 1, ReplaceWords(text, p.words, p.replacement),
                                 sem \cup {p.semantic})
          ELSE ApplyPatternsFrom(i + 1, text, sem)

\* onnxAnonymize: Undefined stands for the null it returns
onnxAnonymize(query, model) ==
  IF model # "loaded" THEN Undefined
  ELSE LET applied == ApplyPatternsFrom(1, Trim(ToLowerCase(query)), {"onnx-processed"})
           anonymizedQuery == Trim(CollapseSpaces(applied[1]))
       IN IF anonymizedQuery = <<>> \/ StrLen(anonymizedQuery) < 2
          THEN Undefined
          ELSE [defined |-> TRUE, originalQuery |-> query,
                anonymizedQuery |-> anonymizedQuery, confidence |-> 85,
                preservedSemantics |-> applied[2], method |-> "onnx-llm"]

\* tinyLlamaAnonymize: this.tinyLlamaModel is a plain object, calling it throws
\* a TypeError that the function's own catch turns into null
tinyLlamaAnonymize(query, model) == Undefined

\* categorizePattern
categorizePattern(pattern) ==
  CASE pattern \in {"city", "town", "near", "nearby", "local", "district", "area"}
         -> "location"
    [] pattern \in {"best", "favorite", "quality", "cheap", "affordable", "premium"}
         -> "preference"
    [] pattern \in {"food", "restaurant", "meal", "cuisine", "dish"} -> "food"
    [] pattern \in {"today", "tomorrow", "now", "urgent", "immediately"} -> "time"
    [] pattern \in {"home", "work", "school", "family", "house"} -> "personal"
    [] OTHER -> "general"

\* text.includes(phrase): no word of the model's vocabulary properly contains
\* a phrase of the rule table, so a phrase occurs exactly as a whole token
Includes(text, phrase) == \E i \in 1..Len(text) : text[i] = phrase

\* text.replace(new RegExp(phrase, 'gi'), replacement)
ReplacePhrase(text, phrase, replacement) ==
  ReplaceWords(text, {phrase}, <<replacement>>)

\* the loop of ruleBasedAnonymize over the rule table, from rule i on:
\* <<text, semantics, replacements>>
RECURSIVE ApplyRulesFrom(_, _, _, _)
ApplyRulesFrom(i, text, sem, n) ==
  IF i > Len(anonymizationRules) THEN <<text, sem, n>>
  ELSE LET r == anonymizationRules[i]
       IN IF Includes(text, r[1])
          THEN ApplyRulesFrom(i + 1, ReplacePhrase(text, r[1], r[2]),
                              sem \cup {categorizePattern(r[1])}, n + 1)
          ELSE ApplyRulesFrom(i + 1, text, sem, n)

CapWords == {"Dinner"}
DigitTokens == {"7"}

\* .replace(/\b[A-Z][a-z]+\s[A-Z][a-z]+\b/g, 'brand')
RECURSIVE ReplaceBrands(_)
ReplaceBrands(s) ==
  IF Len(s) < 3 THEN s
  ELSE IF s[1] \in CapWords /\ s[2] = SP /\ s[3] \in CapWords
       THEN <<"brand">> \o ReplaceBrands(SubSeq(s, 4, Len(s)))
       ELSE <<Head(s)>> \o ReplaceBrands(Tail(s))

\* .replace(/\b\d+\b/g, 'number')
ReplaceNumbers(s) == ReplaceWords(s, DigitTokens, <<"number">>)

\* applyAdvancedPatterns: <<result, pattern-based pushed>>
applyAdvancedPatterns(query) ==
  LET noPronouns == ReplaceWords(query, {"my", "mine", "me", "i", "we", "our"}, <<>>)
      result == Trim(CollapseSpaces(ReplaceBrands(ReplaceNumbers(noPronouns))))
  IN <<result, result # query>>

Min(a, b) == IF a < b THEN a ELSE b
Max(a, b) == IF a > b THEN a ELSE b

\* the confidence without its clamp
RuleConfidence_noClamp(replacements) == replacements * 20 + 30

\* Math.min(0.9, Math.max(0.1, replacements * 0.2 + 0.3)), in hundredths
RuleConfidence(replacements) == Min(90, Max(10, replacements * 20 + 30))

\* ruleBasedAnonymize
ruleBasedAnonymize(query) ==
  LET ruled == ApplyRulesFrom(1, Trim(ToLowerCase(query)), {}, 0)
      adv == applyAdvancedPatterns(ruled[1])
      sem1 == ruled[2] \cup (IF adv[2] THEN {"pattern-based"} ELSE {})
      tooShort == adv[1] = <<>> \/ StrLen(Trim(adv[1])) < 2
  IN [defined |-> TRUE, originalQuery |-> query,
      anonymizedQuery |-> Trim(IF tooShort THEN query ELSE adv[1]),
      confidence |-> RuleConfidence(ruled[3]),
      preservedSemantics |-> sem1 \cup (IF tooShort THEN {"fallback"} ELSE {}),
      method |-> "rule-based"]

\* the text onnxAnonymize validates: the query after the pattern loop and the
\* clean-up
onnxTransform(query) ==
  Trim(CollapseSpaces(
    ApplyPatternsFrom(1, Trim(ToLowerCase(query)), {"onnx-processed"})[1]))

\* the text ruleBasedAnonymize validates: the query after the rule table and
\* applyAdvancedPatterns
ruleBasedTransform(query) ==
  applyAdvancedPatterns(ApplyRulesFrom(1, Trim(ToLowerCase(query)), {}, 0)[1])[1]

\* the short-query test with the limit one lower
IsShortQuery_lt2(normalizedQuery) == StrLen(normalizedQuery) < 2

\* normalizedQuery.length < 3
IsShortQuery(normalizedQuery) == StrLen(normalizedQuery) < 3

\* anonymizeQuery trying the rule table before the model
anonymizeQuery_ruleFirst(query, model) ==
  IF IsShortQuery(Trim(ToLowerCase(query)))
  THEN [defined |-> TRUE, originalQuery |-> query, anonymizedQuery |-> query,
        confidence |-> 90, preservedSemantics |-> {"short-query"},
        method |-> "fallback"]
  ELSE ruleBasedAnonymize(query)

\* the body of anonymizeQuery after initialization, for a string query and
\* a model that is "null" or "loaded"
anonymizeQuery(query, model) ==
  IF IsShortQuery(Trim(ToLowerCase(query)))
  THEN [defined |-> TRUE, originalQuery |-> query, anonymizedQuery |-> query,
        confidence |-> 90, preservedSemantics |-> {"short-query"},
        method |-> "fallback"]
  ELSE IF model = "loaded" /\ onnxAnonymize(query, model).defined
       THEN onnxAnonymize(query, model)
       ELSE IF model # "null" /\ tinyLlamaAnonymize(query, model).defined
            THEN tinyLlamaAnonymize(query, model)
            ELSE ruleBasedAnonymize(query)

\* the strategies a call of anonymizeQuery invokes, in order.  A query that is
\* not a string has no toLowerCase: the try block throws before any strategy
\* and the catch calls basicAnonymization
strategiesOf(query, model) ==
  IF ~IsString(query) THEN <<"basic">>
  ELSE IF IsShortQuery(Trim(ToLowerCase(query))) THEN <<>>
  ELSE LET onnxWon == model = "loaded" /\ onnxAnonymize(query, model).defined
           tinyWon == /\ ~onnxWon
                      /\ model # "null"
                      /\ tinyLlamaAnonymize(query, model).defined
       IN (IF model = "loaded" THEN <<"onnx">> ELSE <<>>)
          \o (IF ~onnxWon /\ model # "null" THEN <<"tinyllama">> ELSE <<>>)
          \o (IF ~onnxWon /\ ~tinyWon THEN <<"rule-based">> ELSE <<>>)

\* the strategies of a call whose body threw and caught its own error: the
\* TinyLlama strategy calls this.tinyLlamaModel, a plain object, as a function;
\* the other strategies do not throw on a string
failedStrategies(strategies) ==
  {strategies[i] : i \in {j \in 1..Len(strategies) : strategies[j] = "tinyllama"}}

\* an anonymizeQuery that lets a failed import of onnxruntime-web escape
anonymizeQueryThrows_importEscapes(query, importOk) ==
  ~IsString(query) \/ ~importOk

\* whether the promise of anonymizeQuery is rejected.  initialize and every
\* strategy catch their own errors; basicAnonymization, called in the catch,
\* throws on a query that has no replace method
anonymizeQueryThrows(query, importOk) == ~IsString(query)

\* no call of anonymizeQuery yet
NoCall ==
  [called |-> FALSE, query |-> <<>>, model |-> "null", threw |-> FALSE,
   strategies |-> <<>>, result |-> Undefined]

\* one call of anonymizeQuery with the model as initialize left it
AnonymizerCall(query, model, importOk) ==
  [called |-> TRUE, query |-> query, model |-> model,
   threw |-> anonymizeQueryThrows(query, importOk),
   strategies |-> strategiesOf(query, model),
   result |-> IF anonymizeQueryThrows(query, importOk) THEN Undefined
              ELSE anonymizeQuery(query, model)]

\* initialize / initializeTinyLlama: the model after initialization, given
\* whether the dynamic import of onnxruntime-web succeeds
ModelAfterInitialize(importOk) == IF importOk THEN "loaded" ELSE "null"

\* ------------------------------------------------------------------------
\* SearchEngines: configuration, payloads and parsing
\* ------------------------------------------------------------------------

\* this.config of the singleton: new SearchEngines() with the defaults
enableAnonymization == TRUE
maxResults == 10

\* what response.json() can deliver: null, or an object whose fields are
\* truthy or falsy.  abstract: Abstract and AbstractText are both truthy;
\* definition: Definition and DefinitionURL are both truthy; answer: Answer
\* and AnswerType are both truthy; related / results: the number of entries
\* of RelatedTopics / Results, each with a truthy Text and FirstURL; a list
\* is empty or holds MaxTopics entries
NullPayload ==
  [isNull |-> TRUE, abstract |-> FALSE, abstractURL |-> FALSE,
   definition |-> FALSE, answer |-> FALSE, related |-> 0, results |-> 0]

Payloads ==
  {NullPayload} \cup
  [isNull : {FALSE}, abstract : BOOLEAN, abstractURL : BOOLEAN,
   definition : BOOLEAN, answer : BOOLEAN,
   related : {0, MaxTopics}, results : {0, MaxTopics}]

\* a SearchResult; a url is <<where it comes from, index>>
Result(title, url, source) ==
  [title |-> title, url |-> url, snippet |-> title, source |-> source]

Take(s, n) == SubSeq(s, 1, Min(Len(s), n))

\* parseDuckDuckGoResults before its slice: the results it pushed
candidateResults(data) ==
  IF data.isNull THEN <<>>
  ELSE LET abs == IF data.abstract /\ data.abstractURL
                  THEN <<Result("Heading", <<"AbstractURL", 0>>, "DuckDuckGo Instant")>>
                  ELSE <<>>
           def == IF data.definition
                  THEN <<Result("Definition", <<"DefinitionURL", 0>>,
                                "DuckDuckGo Definition")>>
                  ELSE <<>>
           ans == IF data.answer
                  THEN <<Result("Answer",
                                IF data.abstractURL THEN <<"AbstractURL", 0>>
                                ELSE <<"#", 0>>,
                                "DuckDuckGo Answer")>>
                  ELSE <<>>
           rel == [i \in 1..Min(data.related, 5) |->
                     Result("Topic", <<"RelatedTopics", i>>, "DuckDuckGo Related")]
           res == [i \in 1..Min(data.results, 3) |->
                     Result("Result", <<"Results", i>>, "DuckDuckGo")]
       IN abs \o def \o ans \o rel \o res

\* parseDuckDuckGoResults returning all it pushed
parseDuckDuckGoResults_noSlice(data) == candidateResults(data)

\* parseDuckDuckGoResults: reading a property of null throws, the catch
\* returns []
parseDuckDuckGoResults(data) == Take(candidateResults(data), maxResults)

\* getMockResults with an empty mockResults array
mockResults_empty == <<>>

\* the three synthesized results of getMockResults; their titles, urls and
\* snippets interpolate finalQuery, which the response keeps as mockQuery
mockResults ==
  << Result("Search Results", <<"en.wikipedia.org/wiki", 0>>, "Mirror Search"),
     Result("Guide and Information", <<"example.com/search", 0>>, "Mirror Search"),
     Result("Best Resources", <<"example.com/resources", 0>>, "Mirror Search") >>

\* no SearchResponse (the promise is pending or rejected)
NoResponse ==
  [defined |-> FALSE, results |-> <<>>, totalResults |-> 0, engine |-> "none",
   anonymized |-> FALSE, anonymization |-> Undefined, debug |-> FALSE,
   debugAnonymizedQuery |-> <<>>, mockQuery |-> <<>>]

\* a response that claims anonymization whatever happened
SuccessResponse_alwaysAnonymized(results, anonymization) ==
  [defined |-> TRUE, results |-> results, totalResults |-> Len(results),
   engine |-> "DuckDuckGo", anonymized |-> TRUE,
   anonymization |-> anonymization, debug |-> anonymization.defined,
   debugAnonymizedQuery |-> anonymization.anonymizedQuery, mockQuery |-> <<>>]

\* the object search returns after searchDuckDuckGo succeeded
SuccessResponse(results, anonymization) ==
  [defined |-> TRUE, results |-> results, totalResults |-> Len(results),
   engine |-> "DuckDuckGo", anonymized |-> anonymization.defined,
   anonymization |-> anonymization, debug |-> anonymization.defined,
   debugAnonymizedQuery |-> anonymization.anonymizedQuery, mockQuery |-> <<>>]

\* getMockResults labelling its synthesized results with the backend's name
MockResponse_backendLabel(results, anonymization, query, mockQuery) ==
  [defined |-> TRUE, results |-> results, totalResults |-> Len(results),
   engine |-> "DuckDuckGo", anonymized |-> anonymization.defined,
   anonymization |-> anonymization, debug |-> TRUE,
   debugAnonymizedQuery |->
     IF anonymization.defined THEN anonymization.anonymizedQuery ELSE query,
   mockQuery |-> mockQuery]

\* the object getMockResults returns
MockResponse(results, anonymization, query, mockQuery) ==
  [defined |-> TRUE, results |-> results, totalResults |-> Len(results),
   engine |-> "Mirror Search (Fallback)", anonymized |-> anonymization.defined,
   anonymization |-> anonymization, debug |-> TRUE,
   debugAnonymizedQuery |->
     IF anonymization.defined THEN anonymization.anonymizedQuery ELSE query,
   mockQuery |-> mockQuery]

\* ------------------------------------------------------------------------
\* search-parsers.ts: the url of one result element
\* ------------------------------------------------------------------------

\* an href is a sequence of characters; "https://example.com/" stands for a
\* run of characters that holds none of ? & = % # and "%25" for that escape
TargetUrl == "https://example.com/"
GooglePrefix == <<"/", "u", "r", "l", "?", "q", "=">>
UddgPrefix == <<"/", "l", "/", "?", "u", "d", "d", "g", "=">>
KhPrefix == <<"/", "l", "/", "?", "k", "h", "=">>
SearchPrefix == <<"/", "s", "e", "a", "r", "c", "h">>
HashPrefix == <<"#">>

\* the targets a redirect wrapper carries, percent-encoded once: a plain url
\* and a url whose path holds a percent sign
Targets == {<<TargetUrl>>, <<TargetUrl, "%25">>}

\* further parameters after the target
Suffixes == {<<>>, <<"&", "s", "a", "=", "U">>}

\* the href attributes of the title links
Hrefs ==
  {prefix \o target \o suffix :
     prefix \in {GooglePrefix, UddgPrefix, KhPrefix,
                 KhPrefix \o <<"-", "1", "&", "u", "d", "d", "g", "=">>},
     target \in Targets, suffix \in Suffixes}
  \cup {<<TargetUrl>>, <<>>, HashPrefix, HashPrefix \o <<"t", "o", "p">>,
        SearchPrefix, SearchPrefix \o <<"?", "q", "=", "x">>}

Parsers == {"google", "bing", "duckduckgo"}

\* url.startsWith(prefix)
StartsWith(url, prefix) ==
  Len(url) >= Len(prefix) /\ SubSeq(url, 1, Len(prefix)) = prefix

\* url.substring(n): the first n code units of the hrefs it is applied to are
\* single characters
Substring(url, n) == SubSeq(url, n + 1, Len(url))

\* the position of the first c in s, or 0
RECURSIVE IndexOf(_, _, _)
IndexOf(s, c, i) ==
  IF i > Len(s) THEN 0 ELSE IF s[i] = c THEN i ELSE IndexOf(s, c, i + 1)

\* s.split(c)
RECURSIVE Split(_, _)
Split(s, c) ==
  LET i == IndexOf(s, c, 1)
  IN IF i = 0 THEN <<s>>
     ELSE <<SubSeq(s, 1, i - 1)>> \o Split(SubSeq(s, i + 1, Len(s)), c)

\* percent-decoding as URLSearchParams does it: an escape becomes its
\* character, a percent sign that starts no escape stays
RECURSIVE FormDecode(_)
FormDecode(s) ==
  IF s = <<>> THEN <<>>
  ELSE <<IF Head(s) = "%25" THEN "%" ELSE Head(s)>> \o FormDecode(Tail(s))

\* new URLSearchParams(init): a leading ? is dropped, the rest is split at
\* & and each piece at its first =; the sequence of <<name, value>>
URLSearchParams(init) ==
  LET body == IF init # <<>> /\ Head(init) = "?" THEN Tail(init) ELSE init
      pieces == SelectSeq(Split(body, "&"), LAMBDA piece : piece # <<>>)
  IN [k \in 1..Len(pieces) |->
        LET piece == pieces[k]
            i == IndexOf(piece, "=", 1)
        IN IF i = 0 THEN <<FormDecode(piece), <<>>>>
           ELSE <<FormDecode(SubSeq(piece, 1, i - 1)),
                  FormDecode(SubSeq(piece, i + 1, Len(piece)))>>]

\* the null that URLSearchParams.get returns for a name that is absent
Null == <<"null">>

\* urlParam.get(name)
Get(params, name) ==
  LET hits == SelectSeq(params, LAMBDA pair : pair[1] = name)
  IN IF hits = <<>> THEN Null ELSE hits[1][2]

\* a || b on strings and null
Or(a, b) == IF a = Null \/ a = <<>> THEN b ELSE a

\* decodeURIComponent throws a URIError on a percent sign that starts no
\* escape
DecodeURIComponentThrows(s) == \E i \in 1..Len(s) : s[i] = "%"

\* decodeURIComponent
DecodeURIComponent(s) == FormDecode(s)

\* if (!url || url.startsWith('/search') || url.startsWith('#')) return
SkippedUrl(url) ==
  url = <<>> \/ StartsWith(url, SearchPrefix) \/ StartsWith(url, HashPrefix)

\* what a parser makes of one element: it pushes a result with this url, or
\* pushes nothing
Emitted(url) == [pushed |-> TRUE, url |-> url]
Skipped == [pushed |-> FALSE, url |-> <<>>]

\* parseGoogleResults, the body of each(): the element has a title
parseGoogleElement(href) ==
  LET url == IF StartsWith(href, GooglePrefix)
             THEN Or(Get(URLSearchParams(Substring(href, 6)), <<"q">>), href)
             ELSE href
  IN IF SkippedUrl(url) THEN Skipped ELSE Emitted(url)

\* parseBingResults, the body of each()
parseBingElement(href) ==
  IF SkippedUrl(href) THEN Skipped ELSE Emitted(href)

\* parseDuckDuckGoResults of search-parsers.ts, the body of each(): an error
\* thrown in it is caught and the element is dropped
parseDuckDuckGoElement(href) ==
  IF StartsWith(href, UddgPrefix) \/ StartsWith(href, KhPrefix)
  THEN LET urlParam == URLSearchParams(Substring(href, 3))
           encoded == Or(Get(urlParam, <<"u", "d", "d", "g">>),
                         Or(Get(urlParam, <<"k", "h">>), href))
       IN IF DecodeURIComponentThrows(encoded) THEN Skipped
          ELSE IF SkippedUrl(DecodeURIComponent(encoded)) THEN Skipped
          ELSE Emitted(DecodeURIComponent(encoded))
  ELSE IF SkippedUrl(href) THEN Skipped ELSE Emitted(href)

\* no element parsed
NoLink == [parser |-> "none", href |-> <<>>, out |-> Skipped]

\* ------------------------------------------------------------------------
\* Two calls of anonymizeQuery in flight at once
\* ------------------------------------------------------------------------

Callers == {1, 2}

\* the queries of the two calls: one the strategies rewrite, one they keep
\* and one that is too short for them
RaceQueries == {<<"city">>, <<"Dinner">>, <<"a">>}

\* a call that has not started
NoCaller == [pc |-> "none", query |-> <<>>, result |-> Undefined]

\* no calls in flight
NoRace ==
  [initialized |-> FALSE, model |-> "null", importOk |-> FALSE,
   calls |-> [p \in Callers |-> NoCaller]]

\* ------------------------------------------------------------------------
\* The browser: the MirrorSearch page scripts (index.ts inline UI,
\* public/js/app.js), WasmLLMLoader and SearchUtils (public/js/search.js)
\* ------------------------------------------------------------------------
\* the three implementations of the MirrorSearch class
Impls == {"inline", "app", "legacy"}

\* what the search input holds when an event fires
SearchInputs == {<<>>, <<SP>>, <<"city">>, <<SP, "a">>}

\* how the fetch of /search ends: a result payload, a payload with an error
\* field, a response whose ok is false, a rejected fetch
FetchOutcomes == {"results", "errorPayload", "notOk", "rejects"}

\* a MirrorSearch instance after its constructor.  inFlight, displayedPage,
\* settled and event are not fields of the class: the /search requests that
\* have not completed, the page displayResults last showed (0: none), the
\* way the last request completed and the last event handled
MirrorSearch(impl) ==
  [impl |-> impl, isSearching |-> FALSE, currentQuery |-> <<>>,
   lastQuery |-> <<>>, currentPage |-> 1, inFlight |-> <<>>,
   displayedPage |-> 0, settled |-> "none", event |-> "none"]

\* no page script has run yet
NoPage == MirrorSearch("none")

\* the fetch('/search', ...) call after the flag is set
SendSearch(u, q, page) ==
  [u EXCEPT !.isSearching = TRUE,
            !.inFlight = Append(@, [query |-> q, page |-> page])]

performSearch_noGuard(u, arg, input, page) ==
  CASE u.impl = "inline" ->
         LET q == Trim(input) IN
         IF q = <<>> THEN u
         ELSE SendSearch([u EXCEPT !.currentQuery = q], q, 1)
    [] u.impl = "app" ->
         LET searchQuery == IF arg # <<>> THEN arg ELSE Trim(input) IN
         IF searchQuery = <<>> THEN u
         ELSE SendSearch([u EXCEPT !.currentQuery = searchQuery], searchQuery, 1)
    [] OTHER ->
         SendSearch([u EXCEPT !.currentPage = page], arg, page)

\* performSearch up to its first await: the inline UI reads the input, the
\* app.js class takes its argument or else the input, the legacy class takes
\* its query and page arguments
performSearch(u, arg, input, page) ==
  CASE u.impl = "inline" ->
         LET q == Trim(input) IN
         IF q = <<>> THEN u
         ELSE IF u.isSearching THEN u
         ELSE SendSearch([u EXCEPT !.currentQuery = q], q, 1)
    [] u.impl = "app" ->
         IF u.isSearching THEN u
         ELSE LET searchQuery == IF arg # <<>> THEN arg ELSE Trim(input) IN
              IF searchQuery = <<>> THEN u
              ELSE SendSearch([u EXCEPT !.currentQuery = searchQuery],
                              searchQuery, 1)
    [] OTHER ->
         IF u.isSearching THEN u
         ELSE SendSearch([u EXCEPT !.currentPage = page], arg, page)

\* loadMoreResults of the legacy class
loadMoreResults(u, input) ==
  IF u.lastQuery = <<>> \/ u.isSearching THEN u
  ELSE performSearch(u, u.lastQuery, input, u.currentPage + 1)

\* the callers of load() and paraphrase()
LoadCallers == 1..MaxCallers

\* a caller's promise: "idle" before a call; "running" the call that runs the
\* load sequence, at the await named by at; "waiting" an entry of
\* loadPromises; settled as "resolved" (value: what it was resolved with),
\* "rejected" or, for paraphrase(), "paraphrased"; waited: it was an entry of
\* loadPromises
IdleCaller ==
  [status |-> "idle", at |-> "none", value |-> "none", paraphrase |-> FALSE,
   waited |-> FALSE]

\* a WasmLLMLoader after its constructor; calls is not a field of the class
WasmLLMLoader ==
  [isLoaded |-> FALSE, isLoading |-> FALSE, module |-> "null", ctx |-> "null",
   loadPromises |-> <<>>, calls |-> [c \in LoadCallers |-> IdleCaller]]

Pending(call) == call.status \in {"running", "waiting"}

\* a resolved load(): paraphrase() goes on to performParaphrasing, which
\* does not use the module
Resolved(call, module) ==
  IF call.paraphrase
  THEN [call EXCEPT !.status = "paraphrased", !.at = "none"]
  ELSE [call EXCEPT !.status = "resolved", !.at = "none", !.value = module]

\* a rejected load(): the await in paraphrase() is outside its try
Rejected(call) == [call EXCEPT !.status = "rejected", !.at = "none"]

RECURSIVE SettleAll(_, _, _)
\* loadPromises.forEach: settles the waiters in order
SettleAll(calls, promises, ok) ==
  IF promises = <<>> THEN calls
  ELSE LET c == Head(promises) IN
       SettleAll([calls EXCEPT ![c] = IF ok.resolve THEN Resolved(@, ok.module)
                                      ELSE Rejected(@)],
                 Tail(promises), ok)

\* the catch block of load()
loadFails(l, c) ==
  [l EXCEPT !.isLoading = FALSE,
            !.calls = SettleAll([@ EXCEPT ![c] = Rejected(@)],
                                l.loadPromises,
                                [resolve |-> FALSE, module |-> "null"]),
            !.loadPromises = <<>>]

load_noWaiters(l, c, para, supported) ==
  LET call == [IdleCaller EXCEPT !.paraphrase = para] IN
  IF l.isLoaded
  THEN [l EXCEPT !.calls[c] = Resolved(call, l.module)]
  ELSE IF ~supported
  THEN loadFails([l EXCEPT !.isLoading = TRUE, !.calls[c] = call], c)
  ELSE [l EXCEPT !.isLoading = TRUE,
                 !.calls[c] = [call EXCEPT !.status = "running", !.at = "simd"]]

\* load() up to its first await; supported: WebAssembly is defined
load(l, c, para, supported) ==
  LET call == [IdleCaller EXCEPT !.paraphrase = para] IN
  IF l.isLoaded
  THEN [l EXCEPT !.calls[c] = Resolved(call, l.module)]
  ELSE IF l.isLoading
  THEN [l EXCEPT !.loadPromises = Append(@, c),
                 !.calls[c] = [call EXCEPT !.status = "waiting",
                                           !.waited = TRUE]]
  ELSE IF ~supported
  THEN loadFails([l EXCEPT !.isLoading = TRUE, !.calls[c] = call], c)
  ELSE [l EXCEPT !.isLoading = TRUE,
                 !.calls[c] = [call EXCEPT !.status = "running", !.at = "simd"]]

\* the engines and queries SearchUtils is called with, and the results
CacheEngines == {"google", "bing"}
\* the (query, engine) pairs the cache is called with
CacheInputs ==
  {<<<<"Dinner">>, "google">>, <<<<SP, "dinner">>, "google">>,
   <<<<"city">>, "google">>, <<<<"Dinner">>, "bing">>}
ResultLists == {"r1", "r2"}
HistoryQueries ==
  {<<>>, <<SP>>, <<"Dinner">>, <<"dinner">>, <<SP, "dinner">>, <<"city">>}

\* a SearchUtils after its constructor, with nothing in localStorage.  cache
\* is the Map in insertion order; now is Date.now(); call is the last call
\* and what it returned; recent holds, for each key, the last cacheResults
\* call of the last ttl ticks.  now, call and recent are not fields of the
\* class
NoUtilsCall ==
  [op |-> "none", key |-> <<>>, results |-> "null", query |-> <<>>,
   before |-> <<>>]

SearchUtils ==
  [searchHistory |-> <<>>, cache |-> <<>>, now |-> 0, call |-> NoUtilsCall,
   recent |-> <<>>]

generateCacheKey(q, engine) == <<engine, ":">> \o Trim(ToLowerCase(q))

\* Map.prototype.has, get, set and delete on the list of entries
Has(cache, key) == \E i \in 1..Len(cache) : cache[i].key = key
MapGet(cache, key) == cache[CHOOSE i \in 1..Len(cache) : cache[i].key = key]
MapSet(cache, item) ==
  IF Has(cache, item.key)
  THEN [i \in 1..Len(cache) |-> IF cache[i].key = item.key THEN item ELSE cache[i]]
  ELSE Append(cache, item)
MapDelete(cache, key) == SelectSeq(cache, LAMBDA e : e.key # key)

Expired(item, now) == now - item.timestamp > item.ttl

RECURSIVE Insert(_, _)
\* where Array.prototype.sort, which is stable, puts e among sorted entries
Insert(sorted, e) ==
  IF sorted = <<>> THEN <<e>>
  ELSE IF sorted[Len(sorted)].timestamp <= e.timestamp THEN Append(sorted, e)
  ELSE Append(Insert(SubSeq(sorted, 1, Len(sorted) - 1), e), sorted[Len(sorted)])

RECURSIVE SortByTimestamp(_)
SortByTimestamp(entries) ==
  IF entries = <<>> THEN <<>>
  ELSE Insert(SortByTimestamp(SubSeq(entries, 1, Len(entries) - 1)),
              entries[Len(entries)])

RECURSIVE DeleteAll(_, _)
DeleteAll(cache, entries) ==
  IF entries = <<>> THEN cache
  ELSE DeleteAll(MapDelete(cache, Head(entries).key), Tail(entries))

cleanCache_newest(cache, now) ==
  LET fresh == SelectSeq(cache, LAMBDA e : ~Expired(e, now)) IN
  IF Len(fresh) > maxCacheSize
  THEN LET entries == SortByTimestamp(fresh)
           toRemove == SubSeq(entries, maxCacheSize + 1, Len(entries))
       IN DeleteAll(fresh, toRemove)
  ELSE fresh

\* cleanCache: deletes the expired entries, then the oldest ones
cleanCache(cache, now) ==
  LET fresh == SelectSeq(cache, LAMBDA e : ~Expired(e, now)) IN
  IF Len(fresh) > maxCacheSize
  THEN LET entries == SortByTimestamp(fresh)
           toRemove == SubSeq(entries, 1, Len(fresh) - maxCacheSize)
       IN DeleteAll(fresh, toRemove)
  ELSE fresh

\* cacheResults: the cache it leaves
cacheResults(cache, now, q, results, engine) ==
  LET cacheItem == [key |-> generateCacheKey(q, engine), results |-> results,
                    timestamp |-> now, engine |-> engine, ttl |-> ttl]
      set == MapSet(cache, cacheItem)
  IN IF Len(set) > maxCacheSize THEN cleanCache(set, now) ELSE set

getCachedResults_noExpiry(cache, now, q, engine) ==
  LET cacheKey == generateCacheKey(q, engine) IN
  IF ~Has(cache, cacheKey) THEN [cache |-> cache, returned |-> "null"]
  ELSE [cache |-> cache, returned |-> MapGet(cache, cacheKey).results]

\* getCachedResults: the cache it leaves and what it returns
getCachedResults(cache, now, q, engine) ==
  LET cacheKey == generateCacheKey(q, engine) IN
  IF ~Has(cache, cacheKey) THEN [cache |-> cache, returned |-> "null"]
  ELSE IF Expired(MapGet(cache, cacheKey), now)
  THEN [cache |-> MapDelete(cache, cacheKey), returned |-> "null"]
  ELSE [cache |-> cache, returned |-> MapGet(cache, cacheKey).results]

\* addToHistory: the history it leaves
addToHistory(searchHistory, q, engine) ==
  IF q = <<>> \/ Trim(q) = <<>> THEN searchHistory
  ELSE LET historyItem == [query |-> Trim(q), engine |-> engine]
           kept == SelectSeq(searchHistory,
                             LAMBDA item : ToLowerCase(item.query) # ToLowerCase(q))
           added == <<historyItem>> \o kept
       IN IF Len(added) > maxHistorySize
          THEN SubSeq(added, 1, maxHistorySize) ELSE added

\* ------------------------------------------------------------------------
\* State
\* ------------------------------------------------------------------------
VARIABLES
  isInitialized,        \* WasmLLM.isInitialized
  tinyLlamaModel,       \* WasmLLM.tinyLlamaModel: "null" or "loaded"
  pc,                   \* where the request is
  entry,                \* what started the request: "http" (POST /search),
                        \* "direct" (a call of search), "health", ...
  query,                \* the query argument of search
  useAnonymization,     \* the useAnonymization argument of search
  finalQuery,           \* the local finalQuery of search
  anonymizationResult,  \* the local anonymizationResult of search
  anonCalls,            \* calls of wasmLLM.anonymizeQuery in this request
  lastAnonymize,        \* the last of these calls: its argument and what it did
  fetched,              \* the queries sent to the backend in this request
  failure,              \* the error searchDuckDuckGo threw, or "none"
  response,             \* what search returned
  sent,                 \* the payloads the handler passed to res.send
  wasmStatus,           \* getEngineStatus: the initialized flag of its wasmStatus
  race,                 \* two calls of anonymizeQuery in flight at once
  parsed,               \* what an HTML parser made of one result element
  ui,                   \* the MirrorSearch instance of the page
  loader,               \* window.wasmLLM, the WasmLLMLoader of the page
  utils                 \* window.searchUtils, the SearchUtils of the page

engineVars == <<isInitialized, tinyLlamaModel, anonymizationRules>>
browserVars == <<ui, loader, utils>>
sideVars == <<wasmStatus, race, parsed, browserVars>>
requestVars == <<pc, entry, query, useAnonymization, finalQuery,
                 anonymizationResult, anonCalls, lastAnonymize, fetched, failure,
                 response, sent>>
vars == <<isInitialized, tinyLlamaModel, anonymizationRules, pc, entry, query,
          useAnonymization, finalQuery, anonymizationResult, anonCalls,
          lastAnonymize, fetched, failure, response, sent, wasmStatus, race,
          parsed, ui, loader, utils>>
serverVars == <<engineVars, requestVars, wasmStatus, race, parsed>>

Init ==
  /\ isInitialized = FALSE
  /\ tinyLlamaModel = "null"
  /\ anonymizationRules = initialRules
  /\ pc = "idle"
  /\ entry = "none"
  /\ query = <<>>
  /\ useAnonymization = FALSE
  /\ finalQuery = <<>>
  /\ anonymizationResult = Undefined
  /\ anonCalls = 0
  /\ lastAnonymize = NoCall
  /\ fetched = <<>>
  /\ failure = "none"
  /\ response = NoResponse
  /\ sent = <<>>
  /\ wasmStatus = FALSE
  /\ race = NoRace
  /\ parsed = NoLink
  /\ ui = NoPage
  /\ loader = WasmLLMLoader
  /\ utils = SearchUtils

\* the request-local state at the start of a request
BeginRequest(e, q, ua, nextPc) ==
  /\ pc' = nextPc
  /\ entry' = e
  /\ query' = q
  /\ useAnonymization' = ua
  /\ finalQuery' = <<>>
  /\ anonymizationResult' = Undefined
  /\ anonCalls' = 0
  /\ lastAnonymize' = NoCall
  /\ fetched' = <<>>
  /\ failure' = "none"
  /\ response' = NoResponse

\* the handler has answered, or the direct call has settled
RequestOver ==
  \/ pc = "responded"
  \/ pc = "anonymized"
  \/ pc = "destroyed"
  \/ pc = "parsed"
  \/ pc = "racing" /\ \A p \in Callers : race.calls[p].pc = "done"
  \/ entry = "direct" /\ pc \in {"returned", "thrown"}

\* the model once initialize has run: it runs on the first use of the engine,
\* where the import of onnxruntime-web succeeds or fails; a model that is
\* loaded stays loaded, destroy does not reset it
ModelAtCall(importOk) ==
  IF isInitialized \/ tinyLlamaModel = "loaded" THEN tinyLlamaModel
  ELSE ModelAfterInitialize(importOk)

\* the outcomes the import of onnxruntime-web can have in this call: it is
\* attempted only by initialize, that is while isInitialized is false, and
\* only while loadONNX has no module cached; a loaded model means it has one
ImportOutcomes ==
  IF isInitialized \/ tinyLlamaModel = "loaded" THEN {TRUE} ELSE BOOLEAN

\* ------------------------------------------------------------------------
\* POST /search handler (index.ts)
\* ------------------------------------------------------------------------

\* a payload passed to res.send: an {error, message} object ...
ErrorPayload(error) ==
  [error |-> error, search |-> NoResponse, errorInfo |-> {}]

\* ... or safeResponse: the search result and debug_info, whose errorInfo is
\* searchResult.errorInfo || {}; no object search returns has an errorInfo
SafeResponse(searchResult) ==
  [error |-> "none", search |-> searchResult, errorInfo |-> {}]

\* the parse error branch without its return: the handler goes on with an
\* undefined body, destructuring throws and the outer catch answers again
HttpInvalidJson_noReturn ==
  /\ pc = "idle"
  /\ BeginRequest("http", NoBody, FALSE, "responded")
  /\ sent' = <<ErrorPayload("Invalid JSON format"), ErrorPayload("Search failed")>>
  /\ UNCHANGED <<engineVars, sideVars>>

\* req.body is a string that JSON.parse rejects
HttpInvalidJson ==
  /\ pc = "idle"
  /\ BeginRequest("http", NoBody, FALSE, "responded")
  /\ sent' = <<ErrorPayload("Invalid JSON format")>>
  /\ UNCHANGED <<engineVars, sideVars>>

\* the body parses to null: destructuring throws, the outer catch answers
HttpNullBody ==
  /\ pc = "idle"
  /\ BeginRequest("http", NoBody, FALSE, "responded")
  /\ sent' = <<ErrorPayload("Search failed")>>
  /\ UNCHANGED <<engineVars, sideVars>>

\* a validation that only looks for a missing query
InvalidQueryParameter_onlyMissing(q) == q = Missing

\* !query || typeof query !== 'string'
InvalidQueryParameter(q) == q = Missing \/ q = <<>> \/ ~IsString(q)

\* the query fields a parsed body can carry
BodyQueries == Queries \cup {NonString, Missing}

\* query is missing, the empty string or not a string: the handler answers
\* and returns
HttpInvalidQuery(q) ==
  /\ pc = "idle"
  /\ InvalidQueryParameter(q)
  /\ BeginRequest("http", q, FALSE, "responded")
  /\ sent' = <<ErrorPayload("Invalid query parameter")>>
  /\ UNCHANGED <<engineVars, sideVars>>

\* a non-empty string query: the handler awaits searchEngines.search
HttpSearch(q, ua) ==
  /\ pc = "idle"
  /\ ~InvalidQueryParameter(q)
  /\ BeginRequest("http", q, ua, "search")
  /\ sent' = <<>>
  /\ UNCHANGED <<engineVars, sideVars>>

\* search returned: the handler sends safeResponse
HttpRespond ==
  /\ entry = "http"
  /\ pc = "returned"
  /\ pc' = "responded"
  /\ sent' = Append(sent, SafeResponse(response))
  /\ UNCHANGED <<engineVars, sideVars, entry, query, useAnonymization,
                 finalQuery, anonymizationResult, anonCalls, lastAnonymize,
                 fetched, failure, response>>

\* search rejected: the inner catch sends 'Search engine error'
HttpSearchError ==
  /\ entry = "http"
  /\ pc = "thrown"
  /\ pc' = "responded"
  /\ sent' = Append(sent, ErrorPayload("Search engine error"))
  /\ UNCHANGED <<engineVars, sideVars, entry, query, useAnonymization,
                 finalQuery, anonymizationResult, anonCalls, lastAnonymize,
                 fetched, failure, response>>

\* ------------------------------------------------------------------------
\* GET /llm-status and GET /health handlers (index.ts)
\* ------------------------------------------------------------------------

\* the payload of /llm-status: status 'ok' and wasmLLM.getStatus()
LlmStatusPayload(initialized, model) ==
  [error |-> "none", search |-> NoResponse, errorInfo |-> {},
   llm |-> [initialized |-> initialized, modelLoaded |-> model = "loaded",
            rulesCount |-> Len(anonymizationRules),
            modelType |-> IF model = "loaded" THEN "onnx-llm" ELSE "rule-based"]]

\* a status handler that reports without initializing
HttpLlmStatus_noInitialize(importOk) ==
  /\ pc = "idle"
  /\ importOk \in ImportOutcomes
  /\ BeginRequest("llm-status", <<>>, FALSE, "responded")
  /\ sent' = <<LlmStatusPayload(isInitialized, tinyLlamaModel)>>
  /\ UNCHANGED <<engineVars, sideVars>>

\* GET /llm-status: initialize the engine if needed, send its status
HttpLlmStatus(importOk) ==
  /\ pc = "idle"
  /\ importOk \in ImportOutcomes
  /\ BeginRequest("llm-status", <<>>, FALSE, "responded")
  /\ isInitialized' = TRUE
  /\ tinyLlamaModel' = ModelAtCall(importOk)
  /\ sent' = <<LlmStatusPayload(TRUE, ModelAtCall(importOk))>>
  /\ UNCHANGED <<anonymizationRules, sideVars>>

\* healthCheck: 'healthy' when both engines are active, 'degraded' when one is
healthStatus(duckduckgo, wasmInitialized) ==
  LET activeEngines == (IF duckduckgo THEN 1 ELSE 0)
                       + (IF wasmInitialized THEN 1 ELSE 0)
  IN IF activeEngines = 2 THEN "healthy"
     ELSE IF activeEngines > 0 THEN "degraded" ELSE "unhealthy"

\* the report of healthCheck, sent by /health: the status, the available flag
\* of each engine, and the rulesCount of the second getStatus
HealthPayload(status, duckduckgo, wasmAvailable) ==
  [error |-> "none", search |-> NoResponse, errorInfo |-> {}, status |-> status,
   engines |-> [duckduckgo |-> [available |-> duckduckgo],
                wasmLLM |-> [available |-> wasmAvailable,
                             rulesCount |-> Len(anonymizationRules)]]]

\* a health check that initializes the engine before it reads its status
HttpHealth_initializes ==
  /\ pc = "idle"
  /\ BeginRequest("health", <<>>, FALSE, "probing")
  /\ sent' = <<>>
  /\ isInitialized' = TRUE
  /\ wasmStatus' = TRUE
  /\ UNCHANGED <<tinyLlamaModel, anonymizationRules, race, parsed, browserVars>>

\* GET /health: healthCheck calls getEngineStatus, which reads
\* wasmLLM.getStatus() and then probes the backend with a fetch
HttpHealth ==
  /\ pc = "idle"
  /\ BeginRequest("health", <<>>, FALSE, "probing")
  /\ sent' = <<>>
  /\ wasmStatus' = isInitialized
  /\ UNCHANGED <<engineVars, race, parsed, browserVars>>

\* while the probe is pending, a first request of another client runs
\* initialize to its end
InitializeMeanwhile(importOk) ==
  /\ pc = "probing"
  /\ ~isInitialized
  /\ importOk \in ImportOutcomes
  /\ isInitialized' = TRUE
  /\ tinyLlamaModel' = ModelAtCall(importOk)
  /\ UNCHANGED <<anonymizationRules, sideVars, requestVars>>

\* the probe settles: ok is testResponse.ok, or false when fetch rejected.
\* getEngineStatus counts the active engines with the wasmStatus it read
\* before the probe; healthCheck calls getStatus again for the flag of wasmLLM
HealthProbeSettles(ok) ==
  /\ pc = "probing"
  /\ pc' = "responded"
  /\ sent' = Append(sent, HealthPayload(healthStatus(ok, wasmStatus), ok,
                                        isInitialized))
  /\ UNCHANGED <<engineVars, sideVars, entry, query, useAnonymization,
                 finalQuery, anonymizationResult, anonCalls, lastAnonymize,
                 fetched, failure, response>>

\* the backend never answers the probe: this fetch has no signal or timer
\* either, and the handler stays suspended in healthCheck
HealthProbeNeverSettles ==
  /\ pc = "probing"
  /\ pc' = "probeHung"
  /\ UNCHANGED <<engineVars, sideVars, entry, query, useAnonymization,
                 finalQuery, anonymizationResult, anonCalls, lastAnonymize,
                 fetched, failure, response, sent>>

\* wasmLLM.destroy() called by other code of the process
Destroy ==
  /\ pc = "idle"
  /\ BeginRequest("destroy", <<>>, FALSE, "destroyed")
  /\ sent' = <<>>
  /\ isInitialized' = FALSE
  /\ anonymizationRules' = <<>>
  /\ UNCHANGED <<tinyLlamaModel, sideVars>>

\* searchEngines.search called by other code of the process, with any string
\* or with a value that is not one
DirectSearch(q, ua) ==
  /\ pc = "idle"
  /\ BeginRequest("direct", q, ua, "search")
  /\ sent' = <<>>
  /\ UNCHANGED <<engineVars, sideVars>>

\* ------------------------------------------------------------------------
\* SearchEngines.search
\* ------------------------------------------------------------------------

\* an anonymizeQuery that empties the rule table it has read
CallAnonymizer_consumesRules(q, importOk) ==
  /\ isInitialized' = TRUE
  /\ tinyLlamaModel' = ModelAtCall(importOk)
  /\ anonymizationRules' = <<>>
  /\ anonCalls' = anonCalls + 1
  /\ lastAnonymize' = AnonymizerCall(q, ModelAtCall(importOk), importOk)

\* anonymizeQuery as search and getMockResults call it: initialize on first
\* use, then the cascade
CallAnonymizer(q, importOk) ==
  /\ isInitialized' = TRUE
  /\ tinyLlamaModel' = ModelAtCall(importOk)
  /\ anonymizationRules' = anonymizationRules
  /\ anonCalls' = anonCalls + 1
  /\ lastAnonymize' = AnonymizerCall(q, ModelAtCall(importOk), importOk)

\* wasmLLM.anonymizeQuery(q) called on the exported singleton, outside search
AnonymizeDirect(q, importOk) ==
  /\ pc = "idle"
  /\ importOk \in ImportOutcomes
  /\ isInitialized' = TRUE
  /\ tinyLlamaModel' = ModelAtCall(importOk)
  /\ pc' = "anonymized"
  /\ entry' = "anonymizer"
  /\ query' = q
  /\ anonCalls' = 1
  /\ lastAnonymize' = AnonymizerCall(q, ModelAtCall(importOk), importOk)
  /\ UNCHANGED <<anonymizationRules, sideVars, useAnonymization, finalQuery,
                 anonymizationResult, fetched, failure, response, sent>>

\* search calling the anonymizer outside any try: a rejection leaves search
SearchAnonymize_noCatch ==
  /\ pc = "search"
  /\ useAnonymization /\ enableAnonymization
  /\ \E importOk \in ImportOutcomes :
       /\ CallAnonymizer(query, importOk)
       /\ LET c == lastAnonymize'
              r == c.result
              short == r.anonymizedQuery = <<>>
                         \/ StrLen(Trim(r.anonymizedQuery)) < 2
          IN IF c.threw
             THEN /\ finalQuery' = query
                  /\ anonymizationResult' = anonymizationResult
                  /\ pc' = "thrown"
             ELSE /\ finalQuery' = IF short THEN query ELSE r.anonymizedQuery
                  /\ anonymizationResult' = IF short THEN Undefined ELSE r
                  /\ pc' = "backend"
  /\ UNCHANGED <<sideVars, entry, query, useAnonymization, fetched, failure,
                 response, sent>>

\* search, lines 60-78, with anonymization
SearchAnonymize ==
  /\ pc = "search"
  /\ useAnonymization /\ enableAnonymization
  /\ \E importOk \in ImportOutcomes :
       /\ CallAnonymizer(query, importOk)
       /\ LET c == lastAnonymize'
              r == c.result
              short == r.anonymizedQuery = <<>>
                         \/ StrLen(Trim(r.anonymizedQuery)) < 2
          IN IF c.threw
             THEN /\ finalQuery' = query
                  /\ anonymizationResult' = anonymizationResult
             ELSE /\ finalQuery' = IF short THEN query ELSE r.anonymizedQuery
                  /\ anonymizationResult' = IF short THEN Undefined ELSE r
  /\ pc' = "backend"
  /\ UNCHANGED <<sideVars, entry, query, useAnonymization, fetched, failure,
                 response, sent>>

\* search, lines 60-78, without anonymization
SearchPlain ==
  /\ pc = "search"
  /\ ~(useAnonymization /\ enableAnonymization)
  /\ finalQuery' = query
  /\ pc' = "backend"
  /\ UNCHANGED <<engineVars, sideVars, entry, query, useAnonymization,
                 anonymizationResult, anonCalls, lastAnonymize, fetched,
                 failure, response, sent>>

\* searchDuckDuckGo without its query guard
QueryTooShort_noGuard(q) == FALSE

\* searchDuckDuckGo rejects the query before any request
QueryTooShort(q) == q = <<>> \/ StrLen(Trim(q)) < 2

\* search passing query, not finalQuery, to searchDuckDuckGo
SearchDuckDuckGoCall_sendsRaw ==
  /\ pc = "backend"
  /\ IF ~IsString(query)
     THEN /\ failure' = "query.trim is not a function"
          /\ pc' = "catch"
          /\ fetched' = fetched
     ELSE IF QueryTooShort(query)
     THEN /\ failure' = "Query too short"
          /\ pc' = "catch"
          /\ fetched' = fetched
     ELSE IF EncodeURIComponentThrows(Trim(query))
          THEN /\ failure' = "URI malformed"
               /\ pc' = "catch"
               /\ fetched' = fetched
          ELSE /\ failure' = failure
               /\ pc' = "fetching"
               /\ fetched' = Append(fetched, Trim(query))
  /\ UNCHANGED <<engineVars, sideVars, entry, query, useAnonymization,
                 finalQuery, anonymizationResult, anonCalls, lastAnonymize,
                 response, sent>>

\* searchDuckDuckGo up to the fetch: the guard, the URL, the request
SearchDuckDuckGoCall ==
  /\ pc = "backend"
  /\ IF ~IsString(finalQuery)
     THEN /\ failure' = "query.trim is not a function"
          /\ pc' = "catch"
          /\ fetched' = fetched
     ELSE IF QueryTooShort(finalQuery)
     THEN /\ failure' = "Query too short"
          /\ pc' = "catch"
          /\ fetched' = fetched
     ELSE IF EncodeURIComponentThrows(Trim(finalQuery))
          THEN /\ failure' = "URI malformed"
               /\ pc' = "catch"
               /\ fetched' = fetched
          ELSE /\ failure' = failure
               /\ pc' = "fetching"
               /\ fetched' = Append(fetched, Trim(finalQuery))
  /\ UNCHANGED <<engineVars, sideVars, entry, query, useAnonymization,
                 finalQuery, anonymizationResult, anonCalls, lastAnonymize,
                 response, sent>>

Fail(error) ==
  /\ failure' = error
  /\ pc' = "catch"
  /\ response' = response

\* fetch rejects (no connection, the runtime gives up)
FetchRejects ==
  /\ pc = "fetching"
  /\ Fail("fetch failed")
  /\ UNCHANGED <<engineVars, sideVars, entry, query, useAnonymization,
                 finalQuery, anonymizationResult, anonCalls, lastAnonymize,
                 fetched, sent>>

\* the backend never answers: fetch is called without a signal and no timer
\* is armed, so the promise stays pending and search stays suspended on it
FetchNeverSettles ==
  /\ pc = "fetching"
  /\ pc' = "hung"
  /\ UNCHANGED <<engineVars, sideVars, entry, query, useAnonymization,
                 finalQuery, anonymizationResult, anonCalls, lastAnonymize,
                 fetched, failure, response, sent>>

\* the backend answers with a status outside 200-299
FetchNotOk ==
  /\ pc = "fetching"
  /\ Fail("DuckDuckGo API error")
  /\ UNCHANGED <<engineVars, sideVars, entry, query, useAnonymization,
                 finalQuery, anonymizationResult, anonCalls, lastAnonymize,
                 fetched, sent>>

\* the body is not JSON: response.json() rejects
FetchBadJson ==
  /\ pc = "fetching"
  /\ Fail("Unexpected token")
  /\ UNCHANGED <<engineVars, sideVars, entry, query, useAnonymization,
                 finalQuery, anonymizationResult, anonCalls, lastAnonymize,
                 fetched, sent>>

\* searchDuckDuckGo returning whatever was parsed, an empty list included
FetchJson_noEmptyCheck(data) ==
  /\ pc = "fetching"
  /\ failure' = failure
  /\ pc' = "returned"
  /\ response' = SuccessResponse(parseDuckDuckGoResults(data), anonymizationResult)
  /\ UNCHANGED <<engineVars, sideVars, entry, query, useAnonymization,
                 finalQuery, anonymizationResult, anonCalls, lastAnonymize,
                 fetched, sent>>

\* the backend answers 2xx with JSON: searchDuckDuckGo parses it, and search
\* returns the results or, when there are none, falls to its catch
FetchJson(data) ==
  /\ pc = "fetching"
  /\ LET results == parseDuckDuckGoResults(data)
     IN IF Len(results) = 0
        THEN Fail("No results from DuckDuckGo API")
        ELSE /\ failure' = failure
             /\ pc' = "returned"
             /\ response' = SuccessResponse(results, anonymizationResult)
  /\ UNCHANGED <<engineVars, sideVars, entry, query, useAnonymization,
                 finalQuery, anonymizationResult, anonCalls, lastAnonymize,
                 fetched, sent>>

\* getMockResults(query, processingTime, anonymized), until it returns or
\* encodeURIComponent throws while the results are built
getMockResults(anonymized) ==
  /\ IF anonymized /\ enableAnonymization
     THEN \E importOk \in ImportOutcomes :
            /\ CallAnonymizer(query, importOk)
            /\ LET c == lastAnonymize'
                   r == c.result
                   mockQuery == IF c.threw THEN query ELSE r.anonymizedQuery
               IN IF EncodeURIComponentThrows(mockQuery)
                  THEN pc' = "thrown" /\ response' = response
                  ELSE /\ pc' = "returned"
                       /\ response' = MockResponse(mockResults, r, query, mockQuery)
     ELSE /\ UNCHANGED <<engineVars, anonCalls, lastAnonymize>>
          /\ IF EncodeURIComponentThrows(query)
             THEN pc' = "thrown" /\ response' = response
             ELSE /\ pc' = "returned"
                  /\ response' = MockResponse(mockResults, Undefined, query, query)
  /\ UNCHANGED <<sideVars, entry, query, useAnonymization, finalQuery,
                 anonymizationResult, fetched, failure, sent>>

\* a catch that tries the backend again instead of synthesizing results
SearchCatch_retry ==
  /\ pc = "catch"
  /\ pc' = "backend"
  /\ UNCHANGED <<engineVars, sideVars, entry, query, useAnonymization,
                 finalQuery, anonymizationResult, anonCalls, lastAnonymize,
                 fetched, failure, response, sent>>

\* a catch that asks getMockResults to anonymize whatever the caller chose
SearchCatch_alwaysAnonymized ==
  /\ pc = "catch"
  /\ getMockResults(TRUE)

\* the catch of search: return await this.getMockResults(query, ..., useAnonymization)
SearchCatch ==
  /\ pc = "catch"
  /\ getMockResults(useAnonymization)

\* ------------------------------------------------------------------------
\* WasmLLM.anonymizeQuery, await by await, for two requests at once
\* ------------------------------------------------------------------------

\* two requests arrive and each calls anonymizeQuery.  The record keeps the
\* engine as they found it.  The loader settles the imports of the one module
\* alike: importOk is the outcome of every import of these calls
RaceBegin(q1, q2, importOk) ==
  /\ pc = "idle"
  /\ importOk \in ImportOutcomes
  /\ BeginRequest("race", <<>>, FALSE, "racing")
  /\ sent' = <<>>
  /\ race' = [initialized |-> isInitialized, model |-> tinyLlamaModel,
              importOk |-> importOk,
              calls |-> [p \in Callers |->
                           [pc |-> "start", query |-> IF p = 1 THEN q1 ELSE q2,
                            result |-> Undefined]]]
  /\ UNCHANGED <<engineVars, wasmStatus, parsed, browserVars>>

\* the frame of a step of caller p
RaceStep(p, from, to, result) ==
  /\ pc = "racing"
  /\ race.calls[p].pc = from
  /\ race' = [race EXCEPT !.calls[p].pc = to, !.calls[p].result = result]
  /\ UNCHANGED <<anonymizationRules, requestVars, wasmStatus, parsed,
               browserVars>>

\* an anonymizeQuery whose initialize sets isInitialized before it loads
RaceEnter_flagFirst(p) ==
  IF isInitialized
  THEN /\ RaceStep(p, "start", "done",
                   anonymizeQuery(race.calls[p].query, tinyLlamaModel))
       /\ UNCHANGED <<isInitialized, tinyLlamaModel>>
  ELSE /\ RaceStep(p, "start", "importing", Undefined)
       /\ isInitialized' = TRUE
       /\ UNCHANGED tinyLlamaModel

\* anonymizeQuery up to its first await: with the engine initialized it reads
\* tinyLlamaModel and the strategy it starts decides the result; otherwise
\* initialize, initializeTinyLlama and loadONNX run up to the import
RaceEnter(p) ==
  IF isInitialized
  THEN /\ RaceStep(p, "start", "done",
                   anonymizeQuery(race.calls[p].query, tinyLlamaModel))
       /\ UNCHANGED <<isInitialized, tinyLlamaModel>>
  ELSE /\ RaceStep(p, "start", "importing", Undefined)
       /\ UNCHANGED <<isInitialized, tinyLlamaModel>>

\* loadONNX returns: the module, and initializeTinyLlama awaits its simulated
\* load, or null, and initialize awaits simulateWasmLoad
RaceImportSettles(p) ==
  /\ RaceStep(p, "importing",
              IF race.importOk THEN "modelLoading" ELSE "wasmLoading", Undefined)
  /\ UNCHANGED <<isInitialized, tinyLlamaModel>>

\* initializeTinyLlama marks the model as loaded and returns true
RaceModelLoaded(p) ==
  /\ RaceStep(p, "modelLoading", "initializing", Undefined)
  /\ tinyLlamaModel' = "loaded"
  /\ UNCHANGED isInitialized

\* initialize sets isInitialized and returns
RaceInitialized(p) ==
  /\ \E from \in {"initializing", "wasmLoading"} :
       RaceStep(p, from, "cascade", Undefined)
  /\ isInitialized' = TRUE
  /\ UNCHANGED tinyLlamaModel

\* anonymizeQuery resumes after initialize: the cascade
RaceCascade(p) ==
  /\ RaceStep(p, "cascade", "done",
              anonymizeQuery(race.calls[p].query, tinyLlamaModel))
  /\ UNCHANGED <<isInitialized, tinyLlamaModel>>

\* ------------------------------------------------------------------------
\* The HTML parsers on one result element
\* ------------------------------------------------------------------------

\* a parser of search-parsers.ts reaches an element whose title link has this
\* href
ParseElement(parser, href) ==
  /\ pc = "idle"
  /\ BeginRequest("parser", <<>>, FALSE, "parsed")
  /\ sent' = <<>>
  /\ parsed' = [parser |-> parser, href |-> href,
                out |-> CASE parser = "google" -> parseGoogleElement(href)
                          [] parser = "bing" -> parseBingElement(href)
                          [] parser = "duckduckgo" -> parseDuckDuckGoElement(href)]
  /\ UNCHANGED <<engineVars, wasmStatus, race, browserVars>>

\* the request is over and its locals are gone; the engine singleton stays
EndRequest ==
  /\ RequestOver
  /\ BeginRequest("none", <<>>, FALSE, "idle")
  /\ sent' = <<>>
  /\ wasmStatus' = FALSE
  /\ race' = NoRace
  /\ parsed' = NoLink
  /\ UNCHANGED <<engineVars, browserVars>>

Next ==
  \/ HttpInvalidJson
  \/ HttpNullBody
  \/ \E q \in BodyQueries : HttpInvalidQuery(q)
  \/ \E q \in BodyQueries, ua \in BOOLEAN : HttpSearch(q, ua)
  \/ HttpRespond
  \/ HttpSearchError
  \/ \E importOk \in BOOLEAN : HttpLlmStatus(importOk)
  \/ HttpHealth
  \/ \E importOk \in BOOLEAN : InitializeMeanwhile(importOk)
  \/ \E ok \in BOOLEAN : HealthProbeSettles(ok)
  \/ HealthProbeNeverSettles
  \/ Destroy
  \/ \E q1 \in RaceQueries, q2 \in RaceQueries, importOk \in BOOLEAN :
       RaceBegin(q1, q2, importOk)
  \/ \E p \in Callers : RaceEnter(p)
  \/ \E p \in Callers : RaceImportSettles(p)
  \/ \E p \in Callers : RaceModelLoaded(p)
  \/ \E p \in Callers : RaceInitialized(p)
  \/ \E p \in Callers : RaceCascade(p)
  \/ \E parser \in Parsers, href \in Hrefs : ParseElement(parser, href)
  \/ \E q \in Queries \cup {NonString}, ua \in BOOLEAN : DirectSearch(q, ua)
  \/ \E q \in Queries \cup WordQueries \cup {NonString}, importOk \in BOOLEAN :
       AnonymizeDirect(q, importOk)
  \/ SearchAnonymize
  \/ SearchPlain
  \/ SearchDuckDuckGoCall
  \/ FetchRejects
  \/ FetchNeverSettles
  \/ FetchNotOk
  \/ FetchBadJson
  \/ \E data \in Payloads : FetchJson(data)
  \/ SearchCatch
  \/ EndRequest

Spec == Init /\ [][Next]_vars

\* the steps the process takes by itself: it resumes an awaited promise that
\* has settled.  Whether the backend answers is not up to the process, and
\* neither is the arrival of requests
ProgramStep ==
  \/ SearchAnonymize
  \/ SearchPlain
  \/ SearchDuckDuckGoCall
  \/ SearchCatch
  \/ HttpRespond
  \/ HttpSearchError

\* ------------------------------------------------------------------------
\* Claims
\* ------------------------------------------------------------------------
Fallback == "Mirror Search (Fallback)"

\* C1: search never throws to its caller: for every string query, both values
\* of useAnonymization and every backend outcome, the call completes with a
\* SearchResponse (the promise is never rejected).
C1_SearchNeverThrows == IsString(query) => pc # "thrown"

\* C2: whenever the real backend failed during a search request, the response
\* search returns has at least one result.
C2_FallbackNeverEmpty ==
  (response.defined /\ failure # "none") => Len(response.results) >= 1

\* a request whose fetch was rejected has returned the synthesized results
C2_Witness ==
  /\ pc = "returned"
  /\ failure = "fetch failed"
  /\ Len(fetched) = 1
  /\ response.engine = Fallback
  /\ Len(response.results) = 3

\* C3: for all string inputs, the empty string included, the anonymizedQuery
\* of the result of anonymizeQuery is never the empty string.
C3_AnonymizedQueryNeverEmpty ==
  response.anonymization.defined => response.anonymization.anonymizedQuery # <<>>

\* C4: no outbound backend request carries a query that is empty after
\* trimming, in a /search request or in a direct call of search.
C4_NoEmptyQueryForwarded ==
  \A i \in 1..Len(fetched) : Trim(fetched[i]) # <<>>

\* a /search request with a whitespace-only query passed the handler's
\* validation and was answered without any backend request
C4_Witness ==
  /\ entry = "http"
  /\ pc = "responded"
  /\ query # <<>>
  /\ Trim(query) = <<>>
  /\ failure = "Query too short"
  /\ fetched = <<>>

\* C5: every backend call is bounded by a timeout: when the backend never
\* responds the call is abandoned and treated as a failure, so the request
\* still has a step to take towards its response.
C5_SilentBackendAbandoned == pc = "hung" => ENABLED ProgramStep

\* C6: when backend 1 (DuckDuckGo) gives no answer in time and the next stage
\* of the chain delivers the results, the response's errorInfo holds exactly
\* one entry, keyed by backend 1, and engine names the stage that delivered.
C6_ErrorInfoNamesFailedBackend ==
  \A i \in 1..Len(sent) :
    (sent[i].error = "none" /\ failure = "fetch failed") =>
      /\ Cardinality(sent[i].errorInfo) = 1
      /\ \A e \in sent[i].errorInfo : e[1] = "DuckDuckGo"
      /\ sent[i].search.engine # "DuckDuckGo"

\* C7: within one search request the backend is contacted at most once, never
\* retried, and only while no outcome (failure or response) is known.
C7_SingleSequentialAttempt ==
  /\ Len(fetched) <= 1
  /\ pc = "fetching" => (Len(fetched) = 1 /\ failure = "none" /\ ~response.defined)
  /\ (response.defined /\ response.engine = "DuckDuckGo") => Len(fetched) = 1

\* the backend failed once and the request ended without a second attempt
C7_Witness ==
  /\ pc = "returned"
  /\ failure = "DuckDuckGo API error"
  /\ Len(fetched) = 1
  /\ response.defined

\* C8: an empty parsed result list is a backend failure: no response names the
\* real backend as engine with zero results.
C8_EmptyListIsFailure ==
  (response.defined /\ response.engine = "DuckDuckGo") => Len(response.results) >= 1

\* the backend answered with a payload that parses to nothing and the request
\* fell through to the synthesized results
C8_Witness ==
  /\ pc = "returned"
  /\ failure = "No results from DuckDuckGo API"
  /\ Len(fetched) = 1
  /\ response.engine = Fallback
  /\ Len(response.results) >= 1

\* C9: engine is the fallback label exactly when the results were synthesized
\* because searchDuckDuckGo failed, and the backend's name exactly when the
\* backend returned at least one parsed result.
C9_EngineLabelExact ==
  response.defined =>
    /\ response.engine \in {Fallback, "DuckDuckGo"}
    /\ (response.engine = Fallback) <=> (failure # "none")
    /\ (response.engine = Fallback) <=> (response.results = mockResults)
    /\ (response.engine = "DuckDuckGo") <=>
         /\ failure = "none"
         /\ Len(fetched) = 1
         /\ Len(response.results) >= 1
         /\ \A i \in 1..Len(response.results) :
              response.results[i].source # "Mirror Search"

\* a degraded response: the backend was contacted, failed, and the response
\* carries the fallback label and the synthesized results
C9_Witness ==
  /\ pc = "returned"
  /\ failure = "Unexpected token"
  /\ Len(fetched) = 1
  /\ response.engine = Fallback
  /\ response.results = mockResults

\* C10: with useAnonymization=false the anonymizer is never invoked, the
\* query handed to the backend call is the original one (the request url
\* carries it trimmed, as for every query), and the response, from
\* the backend or synthesized, has status.anonymized=false, no anonymization
\* object and, when synthesized, results built from the original query.
C10_DisabledMeansOriginalQuery ==
  (entry \in {"http", "direct"} /\ ~useAnonymization) =>
    /\ anonCalls = 0
    /\ pc \in {"backend", "fetching", "hung", "catch"} => finalQuery = query
    /\ \A i \in 1..Len(fetched) : finalQuery = query /\ fetched[i] = Trim(query)
    /\ response.defined =>
         /\ ~response.anonymized
         /\ ~response.anonymization.defined
         /\ (response.engine = Fallback => response.mockQuery = query)

\* a query the engine would rewrite was sent as it is, the backend failed and
\* the synthesized response is not anonymized
C10_Witness ==
  /\ pc = "returned"
  /\ ~useAnonymization
  /\ IsString(query)
  /\ anonymizeQuery(query, "loaded").anonymizedQuery # Trim(query)
  /\ fetched = <<Trim(query)>>
  /\ failure # "none"
  /\ response.engine = Fallback
  /\ ~response.anonymized

\* what search tests after the anonymizer returned: !finalQuery ||
\* finalQuery.trim().length < 2
YieldsShort(r) == r.anonymizedQuery = <<>> \/ StrLen(Trim(r.anonymizedQuery)) < 2

\* C11: when anonymization yields a string shorter than 2 characters after
\* trimming, the step counts as skipped: the request goes on with the original
\* query and the response, from the backend or synthesized, has
\* status.anonymized=false and no anonymization object.
C11_ShortAnonymizationSkipped ==
  ( /\ entry \in {"http", "direct"}
    /\ useAnonymization
    /\ lastAnonymize.called
    /\ ~lastAnonymize.threw
    /\ YieldsShort(lastAnonymize.result) ) =>
      /\ finalQuery = query
      /\ response.defined =>
           (~response.anonymized /\ ~response.anonymization.defined)

\* C12: when the anonymizer throws during a search request the search is not
\* aborted: search goes on to the backend call with the original query and
\* the response it returns has status.anonymized=false.
C12_AnonymizerThrowTolerated ==
  ( /\ entry \in {"http", "direct"}
    /\ lastAnonymize.called
    /\ lastAnonymize.threw ) =>
      /\ pc \notin {"search", "thrown"}
      /\ finalQuery = query
      /\ response.defined =>
           (~response.anonymized /\ ~response.anonymization.defined)

\* the anonymizer rejected its argument twice, in search and in getMockResults,
\* and search returned a response that is not anonymized
C12_Witness ==
  /\ pc = "returned"
  /\ useAnonymization
  /\ lastAnonymize.threw
  /\ anonCalls = 2
  /\ failure # "none"
  /\ response.defined
  /\ ~response.anonymized

\* C13: for every input whose lower-cased, trimmed form has fewer than 3
\* characters, anonymizeQuery returns anonymizedQuery identical to the input,
\* confidence 0.9 and preservedSemantics containing 'short-query', and runs
\* no strategy of the cascade.
C13_ShortQueryReturnedAsIs ==
  ( /\ lastAnonymize.called
    /\ IsString(lastAnonymize.query)
    /\ StrLen(Trim(ToLowerCase(lastAnonymize.query))) < 3 ) =>
      /\ ~lastAnonymize.threw
      /\ lastAnonymize.result.defined
      /\ lastAnonymize.result.anonymizedQuery = lastAnonymize.query
      /\ lastAnonymize.result.confidence = 90
      /\ "short-query" \in lastAnonymize.result.preservedSemantics
      /\ lastAnonymize.strategies = <<>>

\* a two-character query with a leading space, which every strategy would
\* change, came back as it was while the ONNX model was loaded
C13_Witness ==
  /\ lastAnonymize.called
  /\ lastAnonymize.model = "loaded"
  /\ lastAnonymize.query = <<SP, "me">>
  /\ lastAnonymize.result.anonymizedQuery = <<SP, "me">>
  /\ lastAnonymize.result.confidence = 90

InSeq(x, seq) == \E i \in 1..Len(seq) : seq[i] = x

\* C15: the cascade is ordered and the first success wins: the rule-based
\* strategy runs only after the advanced (ONNX) strategy produced no
\* acceptable result, the basic strategy runs only after an exception, and
\* the method of the result names the strategy that produced anonymizedQuery.
C15_OrderedCascade ==
  lastAnonymize.called =>
    LET c == lastAnonymize
        advanced == onnxAnonymize(c.query, c.model)
    IN /\ InSeq("basic", c.strategies) => ~IsString(c.query)
       /\ (IsString(c.query) /\ c.strategies # <<>>) =>
            /\ c.result.defined
            /\ c.strategies[1] = (IF c.model = "loaded" THEN "onnx" ELSE "rule-based")
            /\ InSeq("rule-based", c.strategies) <=> ~advanced.defined
            /\ InSeq("rule-based", c.strategies) =>
                 c.strategies[Len(c.strategies)] = "rule-based"
            /\ advanced.defined =>
                 /\ c.strategies = <<"onnx">>
                 /\ c.result.method = "onnx-llm"
                 /\ c.result.anonymizedQuery = advanced.anonymizedQuery
                 /\ c.result.confidence = advanced.confidence
            /\ ~advanced.defined =>
                 /\ c.result.method = "rule-based"
                 /\ c.result = ruleBasedAnonymize(c.query)

\* the advanced strategy succeeded on a query the rule table would have
\* rewritten differently, and its answer is the one returned
C15_Witness ==
  /\ lastAnonymize.called
  /\ IsString(lastAnonymize.query)
  /\ lastAnonymize.model = "loaded"
  /\ lastAnonymize.strategies = <<"onnx">>
  /\ lastAnonymize.result.method = "onnx-llm"
  /\ lastAnonymize.result.anonymizedQuery
       # ruleBasedAnonymize(lastAnonymize.query).anonymizedQuery

\* C16: the advanced strategy returns a result (method onnx-llm, confidence
\* 0.85) only if at least one category substitution occurred and the
\* remaining text has at least 2 characters; a query of 3 or more characters
\* that matches no advanced pattern is handled by the rule-based strategy.
C16_AdvancedNeedsSubstitution ==
  ( /\ lastAnonymize.called
    /\ IsString(lastAnonymize.query)
    /\ lastAnonymize.strategies # <<>> ) =>
      LET r == lastAnonymize.result
          substituted == r.preservedSemantics # {"onnx-processed"}
      IN /\ r.method = "onnx-llm" =>
              /\ r.confidence = 85
              /\ StrLen(r.anonymizedQuery) >= 2
              /\ substituted
         /\ (\A i \in 1..Len(advancedPatterns) :
               ~TestWords(Trim(ToLowerCase(lastAnonymize.query)),
                          advancedPatterns[i].words)) =>
              r.method = "rule-based"

\* the rule-table phrases that occur in a query, by their index in the table
PhrasesIn(q) ==
  {i \in 1..Len(anonymizationRules) :
     Includes(Trim(ToLowerCase(q)), anonymizationRules[i][1])}

TooShort(text) == text = <<>> \/ StrLen(Trim(text)) < 2

\* C18: whenever a transformation of the engine would produce an empty or
\* shorter-than-2-character string, the returned anonymizedQuery equals
\* originalQuery and the result records a 'fallback' tag; this holds for each
\* strategy that ran (advanced, rule-based).
C18_ShortTransformationReverts ==
  ( /\ lastAnonymize.called
    /\ IsString(lastAnonymize.query)
    /\ lastAnonymize.strategies # <<>> ) =>
      LET c == lastAnonymize
          advancedShort == /\ InSeq("onnx", c.strategies)
                           /\ TooShort(onnxTransform(c.query))
          ruleShort == /\ InSeq("rule-based", c.strategies)
                       /\ TooShort(ruleBasedTransform(c.query))
      IN (advancedShort \/ ruleShort) =>
           /\ c.result.originalQuery = c.query
           /\ c.result.anonymizedQuery = c.result.originalQuery
           /\ "fallback" \in c.result.preservedSemantics

\* the requests that arrive at a public HTTP entry point
HttpEntries == {"http", "health", "llm-status"}

\* C19: every request to POST /search, GET /health or GET /llm-status gets
\* exactly one response on every path: never two, and a request that has come
\* to rest, answered or with nothing left that could resume it, has sent one.
C19_ExactlyOneResponse ==
  entry \in HttpEntries =>
    /\ Len(sent) <= 1
    /\ pc \in {"responded", "hung", "probeHung"} => Len(sent) = 1

\* C20: a /search request whose body is not valid JSON is answered with an
\* {error, message} payload, error = 'Invalid JSON format', and nothing else
\* happens: the anonymizer is not invoked and no backend call is attempted.
C20_InvalidJsonStopsThere ==
  (\E i \in 1..Len(sent) : sent[i].error = "Invalid JSON format") =>
    /\ entry = "http"
    /\ pc = "responded"
    /\ sent = <<ErrorPayload("Invalid JSON format")>>
    /\ anonCalls = 0
    /\ ~lastAnonymize.called
    /\ fetched = <<>>
    /\ failure = "none"
    /\ ~response.defined

\* a request with an unparsable body has been answered, by an engine that
\* earlier requests had already initialized
C20_Witness ==
  /\ entry = "http"
  /\ pc = "responded"
  /\ isInitialized
  /\ Len(sent) = 1
  /\ sent[1].error = "Invalid JSON format"
  /\ ~sent[1].search.defined

\* C21: a /search request whose query field is missing, the empty string or
\* not a string is answered with one {error, message} payload, and search is
\* never called for it: no anonymizer call, no request to the backend, no
\* search response.
C21_InvalidQueryRejected ==
  (entry = "http" /\ query \in {Missing, <<>>, NonString})
    => /\ pc = "responded"
       /\ sent = <<ErrorPayload("Invalid query parameter")>>
       /\ anonCalls = 0
       /\ fetched = <<>>
       /\ failure = "none"
       /\ ~response.defined

\* a request with the empty string as its query has been answered
C21_Witness ==
  /\ entry = "http"
  /\ query = <<>>
  /\ pc = "responded"
  /\ sent = <<ErrorPayload("Invalid query parameter")>>

\* C22: the report of healthCheck has status 'healthy' exactly when both
\* available flags of the same report are true, 'degraded' exactly when one
\* of them is, and 'unhealthy' exactly when none is.
C22_HealthStatusAgreesWithFlags ==
  (entry = "health" /\ pc = "responded")
    => LET report == sent[Len(sent)]
           d == report.engines.duckduckgo.available
           w == report.engines.wasmLLM.available
       IN /\ (report.status = "healthy") <=> (d /\ w)
          /\ (report.status = "degraded") <=> (d # w)
          /\ (report.status = "unhealthy") <=> (~d /\ ~w)

\* C23: every step of a health check (the call, the probe settling or
\* hanging) leaves the engine's initialized flag, its model and its rule
\* table as they were.
C23_HealthCheckReadOnly ==
  [][(entry' = "health" /\ pc' # pc) => UNCHANGED engineVars]_vars

\* a health check has reported on an engine that is initialized with its
\* model loaded
C23_Witness ==
  /\ entry = "health"
  /\ pc = "responded"
  /\ isInitialized
  /\ tinyLlamaModel = "loaded"
  /\ anonymizationRules = initialRules

\* C24: no step other than destroy changes the rule table, so the rulesCount
\* that getStatus reports stays what the constructor made it until destroy.
C24_RuleTableFrozen ==
  [][pc' # "destroyed" => anonymizationRules' = anonymizationRules]_vars

\* the rule-based strategy has applied a rule, and the table is whole
C24_Witness ==
  /\ lastAnonymize.called
  /\ lastAnonymize.result.method = "rule-based"
  /\ lastAnonymize.result.confidence > 30
  /\ anonymizationRules = initialRules

\* the model a call of anonymizeQuery meets when it runs alone on the engine
\* the racing calls found
AloneModel ==
  IF race.initialized \/ race.model = "loaded" THEN race.model
  ELSE ModelAfterInitialize(race.importOk)

\* C25: whatever the interleaving of two calls of anonymizeQuery, first calls
\* racing on initialize included, each call's result is the result its query
\* gets when the call runs alone on the same engine.
C25_RacingCallsDoNotInterfere ==
  entry = "race"
    => \A p \in Callers :
         race.calls[p].pc = "done"
           => race.calls[p].result = anonymizeQuery(race.calls[p].query, AloneModel)

\* a first call has got a result from the model while the other first call
\* is still inside initialize
C25_Witness ==
  /\ entry = "race"
  /\ ~race.initialized
  /\ race.calls[1].pc = "done"
  /\ race.calls[1].result.method = "onnx-llm"
  /\ race.calls[2].pc \in {"importing", "modelLoading", "initializing"}

\* C26: the result list of a search response has at most maxResults entries,
\* also when the payload yields more candidates than that.
C26_ResultsTruncated ==
  response.defined
    => /\ Len(response.results) <= maxResults
       /\ response.totalResults <= maxResults

\* a response made from a payload with more than maxResults candidates
C26_Witness ==
  /\ response.defined
  /\ response.engine = "DuckDuckGo"
  /\ \E data \in Payloads :
       /\ Len(candidateResults(data)) > maxResults
       /\ response.results = Take(candidateResults(data), maxResults)

\* C27: no two results of one search response have the same url.
C27_NoDuplicateUrls ==
  response.defined
    => \A i, j \in 1..Len(response.results) :
         i # j => response.results[i].url # response.results[j].url

\* the target a redirect wrapper carries: the named parameter of its query
\* string
WrappedTarget(href, name) ==
  Get(URLSearchParams(Substring(href, IndexOf(href, "?", 1))), name)

\* C28: for an href that starts with a redirect prefix of its parser
\* ('/url?q=' for Google, '/l/?uddg=' or '/l/?kh=' for DuckDuckGo) the parser
\* emits the wrapped target; an emitted url never starts with a redirect
\* prefix; an href that starts with '/search' or '#' is skipped.
C28_RedirectsUnwrapped ==
  parsed.parser # "none"
    => LET href == parsed.href
           out == parsed.out
       IN /\ (parsed.parser = "google" /\ StartsWith(href, GooglePrefix))
               => out = Emitted(WrappedTarget(href, <<"q">>))
          /\ (parsed.parser = "duckduckgo"
                /\ (StartsWith(href, UddgPrefix) \/ StartsWith(href, KhPrefix)))
               => out = Emitted(Or(WrappedTarget(href, <<"u", "d", "d", "g">>),
                                   WrappedTarget(href, <<"k", "h">>)))
          /\ out.pushed
               => /\ ~StartsWith(out.url, GooglePrefix)
                  /\ ~StartsWith(out.url, UddgPrefix)
                  /\ ~StartsWith(out.url, KhPrefix)
          /\ (StartsWith(href, SearchPrefix) \/ StartsWith(href, HashPrefix))
               => ~out.pushed

\* C29: the engine is uninitialized at first; only a call of anonymizeQuery
\* or a /llm-status request initializes it; once such a call is over the
\* engine is initialized; and no step but destroy resets the flag.
C29_LazyAndSticky ==
  [][/\ (isInitialized /\ pc' # "destroyed") => isInitialized'
     /\ (~isInitialized /\ isInitialized')
          => \/ lastAnonymize'.called /\ anonCalls' = anonCalls + 1
             \/ entry' = "llm-status"
             \/ entry' = "race"
             \/ pc = "probing" /\ pc' = "probing"
     /\ (anonCalls' = anonCalls + 1 \/ entry' = "llm-status") => isInitialized'
     /\ (entry' = "race" /\ \E p \in Callers : race'.calls[p].pc = "done")
          => isInitialized']_vars

\* a search without anonymization has returned on an engine that an earlier
\* request initialized
C29_Witness ==
  /\ entry = "direct"
  /\ ~useAnonymization
  /\ pc = "returned"
  /\ isInitialized

\* C30: in one search request the anonymizer is called at most once, before
\* the first backend attempt; it is not called again after the attempt failed.
C30_AnonymizeOnceBeforeBackend ==
  entry \in {"http", "direct"}
    => anonCalls <= 1

\* C31: a search response has anonymized true exactly when it carries an
\* anonymization object, and then its debug anonymizedQuery is that object's
\* anonymizedQuery; on the backend path and on the fallback path.
C31_AnonymizedFlagMatchesObject ==
  response.defined
    => /\ response.anonymized <=> response.anonymization.defined
       /\ response.anonymization.defined
            => response.debugAnonymizedQuery
                 = response.anonymization.anonymizedQuery

\* a fallback response that carries the anonymization of a rewritten query
C31_Witness ==
  /\ response.defined
  /\ response.engine = "Mirror Search (Fallback)"
  /\ response.anonymized
  /\ response.anonymization.anonymizedQuery # query
  /\ response.debugAnonymizedQuery = response.anonymization.anonymizedQuery

\* C32: when the response of a search request has anonymized true, every
\* request the backend got in it carried exactly the anonymizedQuery of the
\* response's anonymization object.
C32_NoRawQueryBehindAnonymizedFlag ==
  (response.defined /\ response.anonymized)
    => \A i \in 1..Len(fetched) :
         fetched[i] = response.anonymization.anonymizedQuery

\* C32, amended: ... every request the backend got in it carried the
\* anonymizedQuery of the response's anonymization object with the white
\* space at its ends removed.
C32_BackendGotTrimmedAnonymizedQuery ==
  (response.defined /\ response.anonymized)
    => \A i \in 1..Len(fetched) :
         fetched[i] = Trim(response.anonymization.anonymizedQuery)

\* the backend got a rewritten query, failed, and the fallback response
\* carries the anonymization
C32_Witness ==
  /\ response.defined
  /\ response.anonymized
  /\ failure # "none"
  /\ Len(fetched) = 1
  /\ fetched[1] # Trim(query)

\* ------------------------------------------------------------------------
\* The MirrorSearch page: events and completions
\* ------------------------------------------------------------------------
\* the page script constructs its MirrorSearch instance
PageLoad(impl) ==
  /\ ui = NoPage
  /\ ui' = MirrorSearch(impl)
  /\ UNCHANGED <<serverVars, loader, utils>>

\* a click of the search button, Enter in the search input, a submit of the
\* legacy form: the handler, which calls performSearch
SearchClick(input) ==
  /\ ui.impl # "none"
  /\ LET handled ==
           CASE ui.impl = "inline" -> performSearch(ui, <<>>, input, 1)
             [] ui.impl = "app" ->
                  IF ~ui.isSearching THEN performSearch(ui, <<>>, input, 1)
                  ELSE ui
             [] OTHER ->
                  LET q == Trim(input) IN
                  IF q # <<>>
                  THEN performSearch([ui EXCEPT !.currentPage = 1,
                                                !.lastQuery = q], q, input, 1)
                  ELSE ui
     IN ui' = [handled EXCEPT !.event = "search"]
  /\ UNCHANGED <<serverVars, loader, utils>>

\* a click of the retry button; the fallback button of the legacy page does
\* the same with the other engine
RetryClick(input) ==
  /\ ui.impl # "none"
  /\ LET handled ==
           CASE ui.impl = "inline" -> performSearch(ui, <<>>, input, 1)
             [] ui.impl = "app" ->
                  IF ui.currentQuery # <<>>
                  THEN performSearch(ui, ui.currentQuery, input, 1) ELSE ui
             [] OTHER ->
                  IF ui.lastQuery # <<>>
                  THEN performSearch(ui, ui.lastQuery, input, 1) ELSE ui
     IN ui' = [handled EXCEPT !.event = "retry"]
  /\ UNCHANGED <<serverVars, loader, utils>>

\* a click of the load-more button of the legacy page
LoadMoreClick ==
  /\ ui.impl = "legacy"
  /\ ui.currentPage < MaxPage
  /\ ui' = [loadMoreResults(ui, <<>>) EXCEPT !.event = "loadMore"]
  /\ UNCHANGED <<serverVars, loader, utils>>

\* a /search request completes and performSearch runs to its end: try,
\* catch and finally.  The app.js class displays what it got without
\* looking at data.error
SearchSettles(outcome) ==
  /\ \E i \in 1..Len(ui.inFlight) :
       ui' = [ui EXCEPT
                !.isSearching = FALSE,
                !.inFlight = SubSeq(@, 1, i - 1) \o SubSeq(@, i + 1, Len(@)),
                !.displayedPage =
                  IF outcome = "results"
                     \/ (ui.impl = "app" /\ outcome = "errorPayload")
                  THEN ui.inFlight[i].page ELSE @,
                !.settled = outcome,
                !.event = "settled"]
  /\ UNCHANGED <<serverVars, loader, utils>>

UiNext ==
  \/ \E impl \in Impls : PageLoad(impl)
  \/ \E input \in SearchInputs : SearchClick(input)
  \/ \E input \in SearchInputs : RetryClick(input)
  \/ LoadMoreClick
  \/ \E outcome \in FetchOutcomes : SearchSettles(outcome)

UiSpec == Init /\ [][UiNext]_vars

\* ------------------------------------------------------------------------
\* WasmLLMLoader: calls and the steps of the load sequence
\* ------------------------------------------------------------------------
Load(c, supported) ==
  /\ ~Pending(loader.calls[c])
  /\ loader' = load(loader, c, FALSE, supported)
  /\ UNCHANGED <<serverVars, ui, utils>>

\* paraphrase() up to its first await
Paraphrase(c, supported) ==
  /\ ~Pending(loader.calls[c])
  /\ loader' =
       IF ~loader.isLoaded THEN load(loader, c, TRUE, supported)
       ELSE [loader EXCEPT !.calls[c] = [IdleCaller EXCEPT !.status = "paraphrased",
                                                          !.paraphrase = TRUE]]
  /\ UNCHANGED <<serverVars, ui, utils>>

\* checkSIMDSupport has settled: loadWasmModule assigns the module and
\* awaits its timer
CheckSIMDSupportSettles(c) ==
  /\ loader.calls[c].status = "running" /\ loader.calls[c].at = "simd"
  /\ loader' = [loader EXCEPT !.module = "module", !.calls[c].at = "module"]
  /\ UNCHANGED <<serverVars, ui, utils>>

\* the timer of loadWasmModule has fired: initializeContext assigns the
\* context and awaits its timer
LoadWasmModuleSettles(c) ==
  /\ loader.calls[c].status = "running" /\ loader.calls[c].at = "module"
  /\ loader' = [loader EXCEPT !.ctx = "ctx", !.calls[c].at = "context"]
  /\ UNCHANGED <<serverVars, ui, utils>>

\* the timer of initializeContext has fired: the rest of the try block
InitializeContextSettles(c) ==
  /\ loader.calls[c].status = "running" /\ loader.calls[c].at = "context"
  /\ loader' =
       [loader EXCEPT
          !.isLoaded = TRUE, !.isLoading = FALSE,
          !.calls = SettleAll([@ EXCEPT ![c] = Resolved(@, loader.module)],
                              loader.loadPromises,
                              [resolve |-> TRUE, module |-> loader.module]),
          !.loadPromises = <<>>]
  /\ UNCHANGED <<serverVars, ui, utils>>

\* loadWasmModule or initializeContext rejects.  The mock steps of this
\* build do not; the module fetch and model start they stand for can, and
\* both wrap what they catch in an Error that load() catches
LoadStepRejects(c) ==
  /\ loader.calls[c].status = "running"
  /\ loader.calls[c].at \in {"module", "context"}
  /\ loader' = loadFails(loader, c)
  /\ UNCHANGED <<serverVars, ui, utils>>

Unload ==
  /\ loader' = [loader EXCEPT !.isLoaded = FALSE, !.module = "null",
                              !.ctx = "null"]
  /\ UNCHANGED <<serverVars, ui, utils>>

\* what the event loop does by itself once load() is running
LoadStep(c) ==
  \/ CheckSIMDSupportSettles(c)
  \/ LoadWasmModuleSettles(c)
  \/ InitializeContextSettles(c)
  \/ LoadStepRejects(c)

LoadNext ==
  \/ \E c \in LoadCallers, supported \in BOOLEAN : Load(c, supported)
  \/ \E c \in LoadCallers, supported \in BOOLEAN : Paraphrase(c, supported)
  \/ \E c \in LoadCallers : CheckSIMDSupportSettles(c)
  \/ \E c \in LoadCallers : LoadWasmModuleSettles(c)
  \/ \E c \in LoadCallers : InitializeContextSettles(c)
  \/ \E c \in LoadCallers : LoadStepRejects(c)

\* concurrent load() and paraphrase() calls; timers fire and promises settle
LoadSpec ==
  Init /\ [][LoadNext]_vars /\ \A c \in LoadCallers : WF_vars(LoadStep(c))

LoaderNext == LoadNext \/ Unload

LoaderSpec == Init /\ [][LoaderNext]_vars

\* ------------------------------------------------------------------------
\* SearchUtils: the result cache and the search history
\* ------------------------------------------------------------------------
\* time passes
Tick ==
  /\ utils.now < MaxTime
  /\ utils' = [utils EXCEPT
                  !.now = @ + 1,
                  !.recent = SelectSeq(@, LAMBDA e : ~Expired(e, utils.now + 1)),
                  !.call = NoUtilsCall]
  /\ UNCHANGED <<serverVars, ui, loader>>

CacheResults(q, results, engine) ==
  /\ utils' =
       [utils EXCEPT
          !.cache = cacheResults(@, utils.now, q, results, engine),
          !.recent =
            MapSet(@, [key |-> generateCacheKey(q, engine), results |-> results,
                       timestamp |-> utils.now, engine |-> engine, ttl |-> ttl]),
          !.call = [NoUtilsCall EXCEPT !.op = "cacheResults",
                                       !.key = generateCacheKey(q, engine),
                                       !.results = results]]
  /\ UNCHANGED <<serverVars, ui, loader>>

GetCachedResults(q, engine) ==
  /\ LET r == getCachedResults(utils.cache, utils.now, q, engine) IN
     utils' =
       [utils EXCEPT
          !.cache = r.cache,
          !.call = [NoUtilsCall EXCEPT !.op = "getCachedResults",
                                       !.key = generateCacheKey(q, engine),
                                       !.results = r.returned]]
  /\ UNCHANGED <<serverVars, ui, loader>>

CacheNext ==
  \/ Tick
  \/ \E in \in CacheInputs, results \in ResultLists :
       CacheResults(in[1], results, in[2])
  \/ \E in \in CacheInputs : GetCachedResults(in[1], in[2])

CacheSpec == Init /\ [][CacheNext]_vars

AddToHistory(q, engine) ==
  /\ utils' =
       [utils EXCEPT
          !.searchHistory = addToHistory(@, q, engine),
          !.call = [NoUtilsCall EXCEPT !.op = "addToHistory", !.query = q,
                                       !.before = utils.searchHistory]]
  /\ UNCHANGED <<serverVars, ui, loader>>

ClearHistory ==
  /\ utils' = [utils EXCEPT !.searchHistory = <<>>,
                            !.call = [NoUtilsCall EXCEPT !.op = "clearHistory"]]
  /\ UNCHANGED <<serverVars, ui, loader>>

HistoryNext ==
  \/ \E q \in HistoryQueries, engine \in CacheEngines : AddToHistory(q, engine)
  \/ ClearHistory

HistorySpec == Init /\ [][HistoryNext]_vars

\* ------------------------------------------------------------------------
\* C33: performSearch is guarded against re-entrancy.  For any interleaving
\* of search clicks, Enter presses and retry clicks, at most one /search
\* request is in flight per MirrorSearch instance, isSearching is true
\* exactly while that request is in flight, and it is false again once the
\* request has completed, whichever way it completed
\* ------------------------------------------------------------------------
C33_OneSearchInFlight ==
  /\ Len(ui.inFlight) <= 1
  /\ ui.isSearching <=> Len(ui.inFlight) = 1
  /\ ui.event = "settled" => ~ui.isSearching

\* a retry click while the second request of the page is in flight, the
\* first one having failed
C33_Witness ==
  /\ ui.event = "retry"
  /\ ui.isSearching
  /\ Len(ui.inFlight) = 1
  /\ ui.settled = "rejects"

\* ------------------------------------------------------------------------
\* C36: in the legacy paginated client currentPage always equals the number
\* of the last page whose results were displayed.  A load-more request that
\* fails, or that is dropped because a search is in flight, leaves
\* currentPage unchanged, so a later load-more never skips a page
\* ------------------------------------------------------------------------
C36_CurrentPageIsLastDisplayedPage ==
  (ui.impl = "legacy" /\ ~ui.isSearching /\ ui.displayedPage > 0)
    => ui.currentPage = ui.displayedPage

\* ------------------------------------------------------------------------
\* C34: for any number of concurrent load() calls the load sequence runs at
\* most once at a time and every caller's promise eventually settles.  All
\* callers are resolved with the module when loading succeeds and all are
\* rejected when it fails; isLoading is false afterwards, so that a later
\* load() starts a fresh attempt, and no waiter is left pending
\* ------------------------------------------------------------------------
C34_EveryLoadSettles ==
  /\ [](/\ Cardinality({c \in LoadCallers :
                          loader.calls[c].status = "running"}) <= 1
        /\ loader.isLoading
             <=> \E c \in LoadCallers : loader.calls[c].status = "running"
        /\ \A c \in LoadCallers :
             loader.calls[c].status = "waiting"
               <=> \E i \in 1..Len(loader.loadPromises) :
                     loader.loadPromises[i] = c
        /\ ~loader.isLoading => loader.loadPromises = <<>>
        /\ \A c \in LoadCallers :
             loader.calls[c].status = "resolved"
               => loader.calls[c].value = "module")
  /\ [][(loader.isLoading /\ ~loader'.isLoading)
         => \A c \in LoadCallers :
              Pending(loader.calls[c])
                => IF loader'.isLoaded
                   THEN loader'.calls[c].status \in {"resolved", "paraphrased"}
                   ELSE loader'.calls[c].status = "rejected"]_vars
  /\ \A c \in LoadCallers :
       Pending(loader.calls[c]) ~> ~Pending(loader.calls[c])

\* a waiter of a failed attempt was rejected and a waiter of a later one was
\* resolved with the module
C34_Witness ==
  /\ ~loader.isLoading
  /\ \E c1 \in LoadCallers, c2 \in LoadCallers :
       /\ loader.calls[c1].waited /\ loader.calls[c1].status = "rejected"
       /\ loader.calls[c2].waited /\ loader.calls[c2].status = "resolved"
       /\ loader.calls[c2].value = "module"

\* ------------------------------------------------------------------------
\* C35: in every reachable state of WasmLLMLoader, under any interleaving of
\* load(), unload() and paraphrase() calls, isLoaded implies that module and
\* ctx are not null, and isLoaded and isLoading are never both true
\* ------------------------------------------------------------------------
C35_LoadedHasModuleAndContext ==
  /\ loader.isLoaded => (loader.module # "null" /\ loader.ctx # "null")
  /\ ~(loader.isLoaded /\ loader.isLoading)

\* ------------------------------------------------------------------------
\* C37: getCachedResults(query, engine) returns a non-null value only if
\* results were cached under the same engine and the same lower-cased,
\* trimmed query no more than the ttl earlier, and then it returns the
\* results cached last for that key; an expired entry is never returned and
\* is deleted by the lookup
\* ------------------------------------------------------------------------
C37_CachedResultsAreFresh ==
  utils.call.op = "getCachedResults"
    => /\ utils.call.results # "null"
            => /\ Has(utils.recent, utils.call.key)
               /\ MapGet(utils.recent, utils.call.key).results = utils.call.results
               /\ utils.now - MapGet(utils.recent, utils.call.key).timestamp <= ttl
       /\ \A i \in 1..Len(utils.cache) :
            utils.cache[i].key = utils.call.key => ~Expired(utils.cache[i], utils.now)

\* a lookup that returned results, later than any entry of time 0 can live
C37_Witness ==
  /\ utils.call.op = "getCachedResults"
  /\ utils.call.results = "r2"
  /\ utils.now > ttl
  /\ \E i \in 1..Len(utils.cache) : Expired(utils.cache[i], utils.now)

\* ------------------------------------------------------------------------
\* C38: after every cacheResults call the cache holds at most maxCacheSize
\* entries and still contains the entry just inserted: when the bound is
\* exceeded the expired entries are removed first, then the oldest ones
\* ------------------------------------------------------------------------
C38_CacheBoundedAndKeepsInserted ==
  /\ [](/\ Len(utils.cache) <= maxCacheSize
        /\ utils.call.op = "cacheResults"
             => /\ Has(utils.cache, utils.call.key)
                /\ MapGet(utils.cache, utils.call.key).results
                     = utils.call.results
                /\ MapGet(utils.cache, utils.call.key).timestamp = utils.now)
  /\ [][utils'.call.op = "cacheResults"
         => \A i \in 1..Len(utils.cache) :
              ~Has(utils'.cache, utils.cache[i].key)
                => /\ \A j \in 1..Len(utils'.cache) :
                        ~Expired(utils'.cache[j], utils.now)
                   /\ \/ Expired(utils.cache[i], utils.now)
                      \/ \A j \in 1..Len(utils'.cache) :
                           utils'.cache[j].timestamp
                             >= utils.cache[i].timestamp]_vars

\* the insertion that made the cache drop a fresh entry of another key
C38_Witness ==
  /\ utils.call.op = "cacheResults"
  /\ Len(utils.cache) = maxCacheSize
  /\ \E i \in 1..Len(utils.recent) : ~Has(utils.cache, utils.recent[i].key)

\* ------------------------------------------------------------------------
\* C39: after any sequence of addToHistory and clearHistory calls the
\* search history contains no two entries whose stored queries are equal
\* ignoring case, has at most maxHistorySize entries and has the query added
\* last first; a call with an empty or whitespace-only query changes nothing
\* ------------------------------------------------------------------------
C39_HistoryWellFormed ==
  LET h == utils.searchHistory IN
  /\ \A i \in 1..Len(h), j \in 1..Len(h) :
       i # j => ToLowerCase(h[i].query) # ToLowerCase(h[j].query)
  /\ Len(h) <= maxHistorySize
  /\ utils.call.op = "addToHistory"
       => IF Trim(utils.call.query) = <<>>
          THEN h = utils.call.before
          ELSE h # <<>> /\ Head(h).query = Trim(utils.call.query)

====
